---- MODULE Spec2Model ----
(***************************************************************************)
(* Marketing-Support-Tool: the ETL-and-sync engine of the Sellerboard, PPC *)
(* and DSP modules.  The remote worksheet is a grid of rows with a row     *)
(* capacity; the processors read it (col_values, get_all_values), grow it  *)
(* (add_rows), clear it and write ranges into it (update).                 *)
(***************************************************************************)
EXTENDS Integers, Sequences, FiniteSets, TLC

VARIABLES
    module,      \* which processor object is in use: "SB", "PPC" or "DSP"
    worksheet,   \* the remote worksheet: the sequence of its rows up to the last non-empty row
    row_count,   \* worksheet.row_count, the grid's row capacity
    writes,      \* the range writes issued by the last handler call, in order
    call,        \* what the last handler call computed and returned
    ops,         \* number of handler calls made so far
    files,       \* the uploaded batch given to process_files
    merged,      \* what process_files returned
    conn,        \* the processor object's memoized client, spreadsheet and worksheet
    exists,      \* whether the remote document holds the target worksheet
    input,       \* the argument handed to a per-file function
    output,      \* what the per-file function returned
    session_state   \* st.session_state: what a page keeps between its reruns

vars == <<module, worksheet, row_count, writes, call, ops, files, merged, conn, exists, input, output,
          session_state>>

syncVars == <<module, worksheet, row_count, writes, call, ops>>
mergeVars == <<files, merged>>
connVars == <<conn, exists>>
pureVars == <<input, output>>

---------------------------------------------------------------------------
(* Bounds of the model *)

MaxOps == 2          \* handler calls per behaviour
MaxInitRows == 1     \* data rows a worksheet holds at the start (Spec)
MaxDatedRows == 3    \* data rows a worksheet holds at the start (SpecDated)
MaxDfRows == 3       \* rows of the table handed to append_to_sheets
MaxExisting == 10    \* data rows of the worksheet in SpecRange
MaxNew == 30         \* rows appended in SpecRange
MaxFiles == 2        \* files of a batch
MaxFileRows == 1     \* rows of one file
SheetCapacity == 3   \* row capacity of a worksheet at the start
MaxGridCols == 3     \* columns of the worksheet of a dimension table
MaxEvents == 3       \* interactions with a page per behaviour
MaxUploads == 4      \* calls of update_metrics per behaviour
MaxCols == 3         \* columns of a raw table

---------------------------------------------------------------------------
(* Small helpers *)

Max(a, b) == IF a >= b THEN a ELSE b
Min(a, b) == IF a <= b THEN a ELSE b

\* F applied to the value of x, x being evaluated once
With(x, F(_)) == CHOOSE r \in {F(y) : y \in {x}} : TRUE

\* the sequences over S of length at most n
SeqsUpTo(S, n) == UNION {[1..k -> S] : k \in 0..n}

---------------------------------------------------------------------------
(* Calendar dates and cell text *)

\* a datetime.date
MkDate(y, m, d) == [y |-> y, m |-> m, d |-> d]
NoDate == MkDate(0, 0, 0)
DateKey(dt) == dt.y * 10000 + dt.m * 100 + dt.d

IsLeap(y) == (y % 4 = 0 /\ y % 100 # 0) \/ y % 400 = 0
DaysIn(y, m) ==
    IF m = 2 THEN (IF IsLeap(y) THEN 29 ELSE 28)
    ELSE IF m \in {4, 6, 9, 11} THEN 30 ELSE 31

\* A cell's text.  Text that has the shape number-sep-number-sep-number is kept
\* as its separator and its three numbers; any other text is kept whole.
Text(t) == [txt |-> t, f |-> <<>>]
Dated(sep, a, b, c) == [txt |-> sep, f |-> <<a, b, c>>]
Number(n) == [txt |-> "#", f |-> <<n>>]
Blank == Text("")

\* datetime.strftime(fmt) for the four formats of date_formats
strftime(dt, fmt) ==
    CASE fmt = "%m/%d/%Y" -> Dated("/", dt.m, dt.d, dt.y)
      [] fmt = "%d/%m/%Y" -> Dated("/", dt.d, dt.m, dt.y)
      [] fmt = "%Y-%m-%d" -> Dated("-", dt.y, dt.m, dt.d)
      [] fmt = "%m-%d-%Y" -> Dated("-", dt.m, dt.d, dt.y)

\* %Y takes exactly four digits; %m and %d take one or two
IsYear(n) == n >= 1000 /\ n <= 9999
ValidYMD(y, m, d) == IsYear(y) /\ m \in 1..12 /\ d >= 1 /\ d <= DaysIn(y, m)

\* datetime.strptime(text, fmt).date(), NoDate standing for the ValueError
strptime(c, fmt) ==
    IF Len(c.f) # 3 THEN NoDate
    ELSE CASE fmt = "%m/%d/%Y" ->
                IF c.txt = "/" /\ ValidYMD(c.f[3], c.f[1], c.f[2])
                THEN MkDate(c.f[3], c.f[1], c.f[2]) ELSE NoDate
           [] fmt = "%d/%m/%Y" ->
                IF c.txt = "/" /\ ValidYMD(c.f[3], c.f[2], c.f[1])
                THEN MkDate(c.f[3], c.f[2], c.f[1]) ELSE NoDate
           [] fmt = "%Y-%m-%d" ->
                IF c.txt = "-" /\ ValidYMD(c.f[1], c.f[2], c.f[3])
                THEN MkDate(c.f[1], c.f[2], c.f[3]) ELSE NoDate
           [] fmt = "%m-%d-%Y" ->
                IF c.txt = "-" /\ ValidYMD(c.f[3], c.f[1], c.f[2])
                THEN MkDate(c.f[3], c.f[1], c.f[2]) ELSE NoDate

date_formats == <<"%m/%d/%Y", "%d/%m/%Y", "%Y-%m-%d", "%m-%d-%Y">>

RECURSIVE TryFormats(_, _)
TryFormats(c, i) ==
    IF i > Len(date_formats) THEN NoDate
    ELSE IF strptime(c, date_formats[i]) # NoDate THEN strptime(c, date_formats[i])
    ELSE TryFormats(c, i + 1)

\* parse_date_fast: None for blank text, else the first format that parses
parse_date_fast(c) ==
    IF c = Blank THEN NoDate ELSE TryFormats(c, 1)

---------------------------------------------------------------------------
(* Tables in memory (DataFrames) and their serialization *)

NA == "<NA>"          \* a null text value
NaN == -1             \* a null number

\* a typed row of a merged table: first column (Product / ASIN), Date, Campaign, Sales
TRow(a, dt, camp, sales) == [A |-> a, Date |-> dt, Campaign |-> camp, Sales |-> sales]

\* one row of the worksheet: its cells, and (not visible to the program) the
\* calendar date the writer of the Date cell meant by it, NoDate if none
SheetRow(a, d, c, s, on) == [A |-> a, Date |-> d, Campaign |-> c, Sales |-> s, on |-> on]

standard_columns == SheetRow(Text("Product"), Text("Date"), Text("Campaign"), Text("Sales"), NoDate)
BlankRow == SheetRow(Blank, Blank, Blank, Blank, NoDate)

\* null -> "", Timestamp -> month/day/year, number -> number, else str(val)
SerializeRow(r) ==
    SheetRow(IF r.A = NA THEN Blank ELSE Text(r.A),
             IF r.Date = NoDate THEN Blank ELSE Dated("/", r.Date.m, r.Date.d, r.Date.y),
             IF r.Campaign = NA THEN Blank ELSE Text(r.Campaign),
             IF r.Sales = NaN THEN Blank ELSE Number(r.Sales),
             r.Date)

values_to_append(df) == [i \in 1..Len(df) |-> SerializeRow(df[i])]

\* str(val) of a number: its digits as text
Str(n) == [txt |-> "str", f |-> <<n>>]

\* the same loop in src/sellerboard_app.py: null -> "", Timestamp ->
\* strftime("%Y-%m-%d"), number -> str(val), else str(val)
app_serialize_row(r) ==
    SheetRow(IF r.A = NA THEN Blank ELSE Text(r.A),
             IF r.Date = NoDate THEN Blank ELSE strftime(r.Date, "%Y-%m-%d"),
             IF r.Campaign = NA THEN Blank ELSE Text(r.Campaign),
             IF r.Sales = NaN THEN Blank ELSE Str(r.Sales),
             r.Date)

---------------------------------------------------------------------------
(* The remote worksheet (gspread) *)

IsEmptyRow(r) == r.A = Blank /\ r.Date = Blank /\ r.Campaign = Blank /\ r.Sales = Blank

RECURSIVE TrimRows(_)
TrimRows(ws) ==
    IF ws = <<>> THEN ws
    ELSE IF IsEmptyRow(ws[Len(ws)]) THEN TrimRows(SubSeq(ws, 1, Len(ws) - 1))
    ELSE ws

RECURSIVE TrimCells(_)
TrimCells(col) ==
    IF col = <<>> THEN col
    ELSE IF col[Len(col)] = Blank THEN TrimCells(SubSeq(col, 1, Len(col) - 1))
    ELSE col

\* worksheet.col_values(1): column A down to its last non-empty cell
col_values_1(ws) == TrimCells([i \in 1..Len(ws) |-> ws[i].A])

\* worksheet.get_all_values(): the rows down to the last non-empty row
get_all_values(ws) == TrimRows(ws)

\* the grid after worksheet.update(values, "A{first}:..{first+n-1}")
WriteRange(ws, first, values) ==
    LET last == first + Len(values) - 1
    IN  TrimRows([i \in 1..Max(Len(ws), last) |->
                    IF i >= first /\ i <= last THEN values[i - first + 1]
                    ELSE IF i <= Len(ws) THEN ws[i]
                    ELSE BlankRow])

NoFail == [at |-> "none", k |-> 0]
FailAt(at) == [at |-> at, k |-> 0]
FailWrite(k) == [at |-> "write", k |-> k]

\* One worksheet.update call on the sync state st = [ws, rc, log, raised]: the
\* write is logged as issued; it raises when the remote call fails or the range
\* reaches below the grid, and otherwise lands in the grid.
Update(st, first, values, fails) ==
    LET last == first + Len(values) - 1
        issued == Append(st.log, [first |-> first, last |-> last, rc |-> st.rc, values |-> values])
    IN  IF fails \/ last > st.rc
        THEN [st EXCEPT !.log = issued, !.raised = TRUE]
        ELSE [st EXCEPT !.log = issued, !.ws = WriteRange(st.ws, first, values)]

\* (variant: one row too few is added)
EnsureRowsOneShort(st, needed) ==
    IF needed > st.rc THEN [st EXCEPT !.rc = st.rc + (needed - st.rc) - 1] ELSE st

\* worksheet.add_rows(n) when needed exceeds the capacity
EnsureRows(st, needed) ==
    IF needed > st.rc THEN [st EXCEPT !.rc = st.rc + (needed - st.rc)] ELSE st

---------------------------------------------------------------------------
(* SBProcessor: delete_data_from_date and append_to_sheets *)

chunk_size == 2      \* 5000 in the source, scaled to the tables of the model

RowHasDateCell(row) == ~(row.Date = Blank /\ row.Campaign = Blank /\ row.Sales = Blank)

\* (variant: a row is dropped unless its date parses to one before the cut-off)
RowIsDeletedUnlessEarlier(row, from_date) ==
    /\ RowHasDateCell(row)
    /\ LET row_date == parse_date_fast(row.Date)
       IN  row_date = NoDate \/ DateKey(row_date) >= DateKey(from_date)

\* the loop body's test: the row is dropped
RowIsDeleted(row, from_date) ==
    /\ RowHasDateCell(row)
    /\ LET row_date == parse_date_fast(row.Date)
       IN  row_date # NoDate /\ DateKey(row_date) >= DateKey(from_date)

rows_to_keep(data_rows, from_date) ==
    SelectSeq(data_rows, LAMBDA row : ~RowIsDeleted(row, from_date))

\* delete_data_from_date on the sync state; the result carries rows_deleted and msg
delete_data_from_date(st, from_date, fail) ==
    LET all_data == get_all_values(st.ws)
        headers == all_data[1]
        data_rows == Tail(all_data)
        keep == rows_to_keep(data_rows, from_date)
        rows_deleted == Len(data_rows) - Len(keep)
        data_to_write == <<headers>> \o keep
        done(s, n, msg, cleared) ==
            [st |-> s, rows_deleted |-> n, msg |-> msg, cleared |-> cleared]
    IN  IF fail.at = "read" THEN done([st EXCEPT !.raised = TRUE], 0, "", FALSE)
        ELSE IF Len(all_data) <= 1 THEN done(st, 0, "No data to delete", FALSE)
        ELSE IF headers.Date # Text("Date")
             THEN done(st, 0, "Date column not found in sheet", FALSE)
        ELSE IF rows_deleted > 0
             THEN IF fail.at = "clear" THEN done([st EXCEPT !.raised = TRUE], 0, "", FALSE)
                  ELSE With(Update([st EXCEPT !.ws = <<>>], 1, data_to_write,
                                   fail.at = "rewrite"),
                            LAMBDA written :
                                done(written, IF written.raised THEN 0 ELSE rows_deleted,
                                     IF written.raised THEN "" ELSE "Successfully deleted",
                                     TRUE))
        ELSE done(st, 0, "No data found", FALSE)

\* get_existing_sheet_data_count: non-blank cells of column A less the header; 0 on error
NonBlankCount(col) == Cardinality({i \in 1..Len(col) : col[i] # Blank})
get_existing_sheet_data_count(ws, fail) ==
    IF fail.at = "count" THEN 0
    ELSE Max(0, NonBlankCount(col_values_1(ws)) - 1)

\* (variant: the header row not reserved)
StartRowNoHeader(existing_rows) == Max(existing_rows + 1, 2)
StartRow(existing_rows) == Max(existing_rows + 2, 2)
EndRow(start_row, n) == start_row + n - 1
SBTotalNeededRows(end_row) == end_row + 1

\* (variant: every chunk is written at start_row)
RECURSIVE ChunkedUpdateSameStart(_, _, _, _, _)
ChunkedUpdateSameStart(st, values, start_row, i, fail) ==
    IF i >= Len(values) \/ st.raised THEN st
    ELSE LET chunk == SubSeq(values, i + 1, Min(i + chunk_size, Len(values)))
             k == (i \div chunk_size) + 1
         IN  With(Update(st, start_row, chunk, fail = FailWrite(k)),
                  LAMBDA s : ChunkedUpdateSameStart(s, values, start_row, i + chunk_size, fail))

RECURSIVE ChunkedUpdate(_, _, _, _, _)
ChunkedUpdate(st, values, start_row, i, fail) ==
    IF i >= Len(values) \/ st.raised THEN st
    ELSE LET chunk == SubSeq(values, i + 1, Min(i + chunk_size, Len(values)))
             chunk_start_row == start_row + i
             k == (i \div chunk_size) + 1
         IN  With(Update(st, chunk_start_row, chunk, fail = FailWrite(k)),
                  LAMBDA s : ChunkedUpdate(s, values, start_row, i + chunk_size, fail))

\* what a call of append_to_sheets computed on its way and how it ended
CallRec(m, cutoff, fail, reached, del, nonblank, existing_rows, start_row, end_row, ensured, values, result) ==
    [op |-> "append", module |-> m, cutoff |-> cutoff, fail |-> fail,
     reached |-> reached, rows_deleted |-> del.rows_deleted, delete_msg |-> del.msg,
     cleared |-> del.cleared, delete_writes |-> Len(del.st.log),
     nonblank |-> IF reached THEN nonblank ELSE 0,
     existing_rows |-> IF reached THEN existing_rows ELSE 0,
     start_row |-> IF reached THEN start_row ELSE 0,
     end_row |-> IF reached THEN end_row ELSE 0,
     ensured |-> IF reached THEN ensured ELSE 0,
     values |-> values, result |-> result]

\* the delete step not taken
NoDelete(st) == [st |-> st, rows_deleted |-> 0, msg |-> "", cleared |-> FALSE]
NewSync(ws, rc) == [ws |-> ws, rc |-> rc, log |-> <<>>, raised |-> FALSE]

NoCall == [CallRec("", NoDate, NoFail, FALSE, NoDelete(NewSync(<<>>, 0)),
                   0, 0, 0, 0, 0, <<>>, "") EXCEPT !.op = "none"]

\* the whole of SBProcessor.append_to_sheets(df, delete_from_date)
NoCutoff == NoDate
SBAppendWrite(del, df, delete_from_date, fail) ==
    LET st1 == del.st
        nonblank == IF fail.at = "count" THEN 0 ELSE NonBlankCount(col_values_1(st1.ws))
        existing_rows == get_existing_sheet_data_count(st1.ws, fail)
        start_row == StartRow(existing_rows)
        end_row == EndRow(start_row, Len(df))
        total_needed_rows == SBTotalNeededRows(end_row)
        values == values_to_append(df)
        info(s, reached) ==
            CallRec("SB", delete_from_date, fail, reached, del, nonblank, existing_rows, start_row, end_row, total_needed_rows,
                    values, IF s.raised THEN "raised" ELSE "ok")
    IN  IF st1.raised THEN [st |-> st1, call |-> info(st1, FALSE)]
        ELSE With(EnsureRows(st1, total_needed_rows), LAMBDA st2 :
             With(IF Len(values) <= chunk_size
                  THEN Update(st2, start_row, values, fail = FailWrite(1))
                  ELSE ChunkedUpdate(st2, values, start_row, 0, fail),
                  LAMBDA st3 : [st |-> st3, call |-> info(st3, TRUE)]))

\* (variant: the delete step runs whether or not a cut-off date was passed)
SBAppendRunAlwaysDeleting(ws, rc, df, delete_from_date, fail) ==
    With(delete_data_from_date(NewSync(ws, rc), delete_from_date, fail),
         LAMBDA del : SBAppendWrite(del, df, delete_from_date, fail))

SBAppendRun(ws, rc, df, delete_from_date, fail) ==
    With(IF delete_from_date # NoCutoff
         THEN delete_data_from_date(NewSync(ws, rc), delete_from_date, fail)
         ELSE NoDelete(NewSync(ws, rc)),
         LAMBDA del : SBAppendWrite(del, df, delete_from_date, fail))

---------------------------------------------------------------------------
(* PPCProcessor.append_to_sheets *)

\* PPCProcessor.get_existing_sheet_data_count
ppc_get_existing_sheet_data_count(ws, fail) ==
    IF fail.at = "count" THEN 0
    ELSE IF col_values_1(ws) # <<>> THEN NonBlankCount(col_values_1(ws)) - 1 ELSE 0

PPCNeededRows(start_row, n) == start_row + n - 1

PPCAppendRun(ws, rc, df, fail) ==
    LET st0 == NewSync(ws, rc)
        nonblank == IF fail.at = "count" THEN 0 ELSE NonBlankCount(col_values_1(ws))
        existing_rows == ppc_get_existing_sheet_data_count(ws, fail)
        start_row == StartRow(existing_rows)
        values == values_to_append(df)
        needed_rows == PPCNeededRows(start_row, Len(values))
        end_row == EndRow(start_row, Len(df))
    IN  With(Update(EnsureRows(st0, needed_rows), start_row, values, fail = FailWrite(1)),
             LAMBDA st2 :
                [st |-> st2,
                 call |-> CallRec("PPC", NoCutoff, fail, TRUE, NoDelete(st0), nonblank, existing_rows,
                                  start_row, end_row, needed_rows, values,
                                  IF st2.raised THEN "raised" ELSE "ok")])

---------------------------------------------------------------------------
(* DSPProcessor.append_to_sheets *)

DSPStartRow(existing_rows) == Max(existing_rows + 1, 2)

DSPAppendRun(ws, rc, df, fail) ==
    LET st0 == NewSync(ws, rc)
        values == values_to_append(df)
        existing_rows == Len(get_all_values(ws))
        start_row == DSPStartRow(existing_rows)
        end_row == EndRow(start_row, Len(values))
        info(reached, result) ==
            CallRec("DSP", NoCutoff, fail, reached, NoDelete(st0), 0, existing_rows,
                    start_row, end_row, end_row, values, result)
    IN  IF fail.at = "read"
        THEN [st |-> [st0 EXCEPT !.raised = TRUE], call |-> info(FALSE, "false")]
        ELSE With(Update(EnsureRows(st0, end_row), start_row, values, fail = FailWrite(1)),
                  LAMBDA st2 : [st |-> st2,
                                call |-> info(TRUE, IF st2.raised THEN "false" ELSE "ok")])

---------------------------------------------------------------------------
(* DSPProcessor: the ASIN derived from the Creative text *)

LowerLetters == {"a", "b", "c", "d", "e", "n", "x"}
\* str.upper() of one character
upper(c) ==
    CASE c = "a" -> "A" [] c = "b" -> "B" [] c = "c" -> "C" [] c = "d" -> "D"
      [] c = "e" -> "E" [] c = "n" -> "N" [] c = "x" -> "X" [] OTHER -> c
str_upper(t) == [i \in 1..Len(t) |-> upper(t[i])]

\* astype(str): a null Creative (an empty cell) becomes the text "nan"
NullText == <<>>
astype_str(v) == IF v = NullText THEN <<"n", "a", "n">> ELSE v

asin_len == 10

\* (variant: the text is cut but not uppercased)
dsp_asin_not_uppercased(creative) ==
    SubSeq(astype_str(creative), 1, Min(asin_len, Len(astype_str(creative))))

\* df["Creative"].astype(str).str[:10].str.upper()
dsp_asin(creative) ==
    str_upper(SubSeq(astype_str(creative), 1, Min(asin_len, Len(astype_str(creative)))))

---------------------------------------------------------------------------
(* process_files: per-file tables, concatenation, dedup, sort *)

\* An uploaded file: the date its name carries (NoDate if the name has none)
\* and its rows as read, each with first column, Campaign and Sales.  A file
\* is a table, or cannot be read as one ("unreadable"), or is a table without
\* the Creative column ("no_creative").
FileRow(a, camp, sales) == [A |-> a, Campaign |-> camp, Sales |-> sales]
File(dt, rows) == [date |-> dt, rows |-> rows, kind |-> "table"]
UnreadableFile == [date |-> NoDate, rows |-> <<>>, kind |-> "unreadable"]
NoCreativeFile(dt, rows) == [date |-> dt, rows |-> rows, kind |-> "no_creative"]

\* (variant: no table counts as all-null)
NeverAllNull(t) == FALSE
\* a row, a table of which every cell is null
AllNullRow(r) == r.A = NA /\ r.Campaign = NA /\ r.Sales = NaN
AllNull(t) == \A i \in 1..Len(t) : t[i].A = NA /\ t[i].Date = NoDate /\ t[i].Campaign = NA /\ t[i].Sales = NaN

\* (variant: no error is recorded)
NoneRecorded(fs) == {}
\* the files whose processing raised: pd.read_excel fails on them
Unreadable(fs) == {i \in 1..Len(fs) : fs[i].kind = "unreadable"}

Today == MkDate(2025, 10, 16)   \* datetime.now().date()

\* PPCProcessor.extract_date_from_filename: the name's date, else today
ppc_extract_date(f) == IF f.date # NoDate THEN f.date ELSE Today

\* PPCProcessor.process_single_excel: the all-null rows are dropped and every
\* row gets the file's date; an empty table when the file cannot be read
ppc_process_single_excel(f) ==
    IF f.kind = "unreadable" THEN <<>>
    ELSE LET rows == SelectSeq(f.rows, LAMBDA r : ~AllNullRow(r))
         IN  [i \in 1..Len(rows) |->
                TRow(rows[i].A, ppc_extract_date(f), rows[i].Campaign, rows[i].Sales)]

\* SBProcessor.process_single_excel: Date is set only when the name carries
\* one; an empty table when the file cannot be read
sb_process_single_excel(f) ==
    IF f.kind = "unreadable" THEN <<>>
    ELSE [i \in 1..Len(f.rows) |->
            TRow(f.rows[i].A, f.date, f.rows[i].Campaign, f.rows[i].Sales)]

RECURSIVE Concat(_)
Concat(tables) ==
    IF tables = <<>> THEN <<>> ELSE Head(tables) \o Concat(Tail(tables))

MergeKey(r) == <<r.A, r.Date, r.Campaign>>

\* (variant: keep='first', the first occurrence of a key wins)
RECURSIVE DropDuplicatesKeepFirst(_)
DropDuplicatesKeepFirst(rows) ==
    IF rows = <<>> THEN <<>>
    ELSE LET init == SubSeq(rows, 1, Len(rows) - 1)
             last == rows[Len(rows)]
         IN  IF \E j \in 1..Len(init) : MergeKey(init[j]) = MergeKey(last)
             THEN DropDuplicatesKeepFirst(init)
             ELSE With(DropDuplicatesKeepFirst(init), LAMBDA kept : Append(kept, last))

\* DataFrame.drop_duplicates(subset=[ASIN, Date, Campaign], keep='last')
RECURSIVE DropDuplicatesKeepLast(_)
DropDuplicatesKeepLast(rows) ==
    IF rows = <<>> THEN <<>>
    ELSE IF \E j \in 2..Len(rows) : MergeKey(rows[j]) = MergeKey(rows[1])
         THEN DropDuplicatesKeepLast(Tail(rows))
         ELSE <<rows[1]>> \o DropDuplicatesKeepLast(Tail(rows))

\* sort_values(['Date', 'Sales'], ascending=[True, False]): nulls go last in
\* either column, and rows that compare equal keep their order
DateBefore(a, b) == a.Date # NoDate /\ (b.Date = NoDate \/ DateKey(a.Date) < DateKey(b.Date))
\* (variant: Sales ascending)
SalesBeforeAsc(a, b) == a.Sales # NaN /\ (b.Sales = NaN \/ a.Sales < b.Sales)
SalesBefore(a, b) == a.Sales # NaN /\ (b.Sales = NaN \/ a.Sales > b.Sales)
RowBefore(a, b) == DateBefore(a, b) \/ (a.Date = b.Date /\ SalesBefore(a, b))

RECURSIVE InsertSorted(_, _)
InsertSorted(sorted, r) ==
    IF sorted = <<>> THEN <<r>>
    ELSE IF RowBefore(r, Head(sorted)) THEN <<r>> \o sorted
    ELSE <<Head(sorted)>> \o InsertSorted(Tail(sorted), r)

RECURSIVE SortValues(_)
SortValues(rows) ==
    IF rows = <<>> THEN <<>>
    ELSE With(SortValues(SubSeq(rows, 1, Len(rows) - 1)),
              LAMBDA sorted : InsertSorted(sorted, rows[Len(rows)]))

NonEmptyIdx(tables) == {i \in 1..Len(tables) : tables[i] # <<>>}

RECURSIVE Pick(_, _)
Pick(s, order) ==
    IF order = <<>> THEN <<>> ELSE <<s[Head(order)]>> \o Pick(s, Tail(order))

Ascending(n) == [i \in 1..n |-> i]
Orders(n) == {o \in [1..n -> 1..n] : \A i, j \in 1..n : i # j => o[i] # o[j]}
KeepIdx(order, S) == SelectSeq(order, LAMBDA i : i \in S)

\* PPCProcessor.process_files
ppc_process_files(fs) ==
    LET tables == [i \in 1..Len(fs) |-> ppc_process_single_excel(fs[i])]
        processed_files == KeepIdx(Ascending(Len(fs)), NonEmptyIdx(tables))
        all_dataframes == Pick(tables, processed_files)
    IN  IF all_dataframes = <<>>
        THEN [module |-> "PPC", df |-> <<>>, processed_files |-> <<>>, concat |-> <<>>,
              errors |-> Unreadable(fs)]
        ELSE [module |-> "PPC",
              df |-> SortValues(DropDuplicatesKeepLast(Concat(all_dataframes))),
              processed_files |-> processed_files,
              concat |-> Concat(all_dataframes),
              errors |-> Unreadable(fs)]

\* SBProcessor.process_files, the workers finishing in the order `completed`
sb_process_files(fs, completed) ==
    LET tables == [i \in 1..Len(fs) |-> sb_process_single_excel(fs[i])]
        processed_files == KeepIdx(completed, NonEmptyIdx(tables))
        all_dataframes == Pick(tables, processed_files)
        valid_dataframes == SelectSeq(all_dataframes, LAMBDA t : ~AllNull(t))
    IN  IF all_dataframes = <<>> \/ valid_dataframes = <<>>
        THEN [module |-> "SB", df |-> <<>>, processed_files |-> <<>>, concat |-> <<>>,
              errors |-> Unreadable(fs)]
        ELSE [module |-> "SB",
              df |-> SortValues(Concat(valid_dataframes)),
              processed_files |-> processed_files,
              concat |-> Concat(valid_dataframes),
              errors |-> Unreadable(fs)]

\* DSPProcessor.process_single_file_content: raises for a file that cannot be
\* read, has no rows or has no Creative column; else drops the last row of a
\* table of several rows, derives the ASIN and sets the Date
DRow(asin, creative, dt, sales) == [ASIN |-> asin, Creative |-> creative, Date |-> dt, Sales |-> sales]
dsp_raises(f) == f.kind = "unreadable" \/ f.rows = <<>> \/ f.kind = "no_creative"
dsp_process_single_file_content(f) ==
    LET rows == IF Len(f.rows) > 1 THEN SubSeq(f.rows, 1, Len(f.rows) - 1) ELSE f.rows
    IN  [i \in 1..Len(rows) |-> DRow(dsp_asin(rows[i].A), rows[i].A, f.date, rows[i].Sales)]

\* DSPProcessor.process_files
dsp_process_files(fs) ==
    LET processed_files == SelectSeq(Ascending(Len(fs)), LAMBDA i : ~dsp_raises(fs[i]))
        all_dfs == [k \in 1..Len(processed_files) |->
                        dsp_process_single_file_content(fs[processed_files[k]])]
        errors == {i \in 1..Len(fs) : dsp_raises(fs[i])}
    IN  IF all_dfs = <<>>
        THEN [module |-> "DSP", df |-> <<>>, processed_files |-> <<>>, concat |-> <<>>,
              errors |-> errors]
        ELSE [module |-> "DSP", df |-> Concat(all_dfs), processed_files |-> processed_files,
              concat |-> Concat(all_dfs), errors |-> errors]

---------------------------------------------------------------------------
(* _standardize_columns: raw column headers onto the canonical column list *)

\* A column name: its text lowercased, and its casing ("std" is the casing the
\* canonical list writes, "upper" any other).  A raw header may carry
\* surrounding blanks.
Name(key, form) == [key |-> key, form |-> form]
Std(key) == Name(key, "std")
NoCol == Name("", "")
RawHeader(key, form, pad) == [key |-> key, form |-> form, pad |-> pad]

\* str(c).strip()
strip(h) == Name(h.key, h.form)

\* the tokens the alias tests look for in a lowercased name ("<U+0441>ost" is
\* "cost" written with the Cyrillic letter es)
Tokens(key) ==
    CASE key = "sponsored products (ppc)" -> {"sponsored", "ppc"}
      [] key = "sponsored ppc spend" -> {"sponsored", "ppc"}
      [] key = "refund <U+0441>ost" -> {"refund", "<U+0441>ost"}
      [] key = "refund cost" -> {"refund", "cost"}
      [] OTHER -> {}

\* SBProcessor.standard_columns: Date, Sales, Sponsored products (PPC), Refund <U+0441>ost
sb_standard_columns ==
    <<Std("date"), Std("sales"), Std("sponsored products (ppc)"), Std("refund <U+0441>ost")>>

ColNames(cols) == {cols[i] : i \in 1..Len(cols)}
Indices(cols) == [i \in 1..Len(cols) |-> i]

\* df_col_map = {col.lower(): col}: its keys in order of first occurrence, and
\* for a key the last column that lowercases to it
df_col_map_keys(cols) ==
    LET first == SelectSeq(Indices(cols), LAMBDA i : \A j \in 1..(i - 1) : cols[j].key # cols[i].key)
    IN  [k \in 1..Len(first) |-> cols[first[k]].key]
df_col_map(cols, key) ==
    cols[CHOOSE i \in 1..Len(cols) :
            cols[i].key = key /\ \A j \in (i + 1)..Len(cols) : cols[j].key # key]

\* the first key of df_col_map that passes the alias test of the canonical name
IsSponsoredAlias(key) == "sponsored" \in Tokens(key) /\ "ppc" \in Tokens(key)
IsRefundAlias(key) ==
    "refund" \in Tokens(key) /\ ("cost" \in Tokens(key) \/ "<U+0441>ost" \in Tokens(key))
FirstKey(hits) == IF hits = <<>> THEN "" ELSE hits[1]

\* column_mapping after the canonical names 1..k
RECURSIVE column_mapping(_, _)
column_mapping(cols, k) ==
    IF k = 0 THEN [n \in ColNames(cols) |-> NoCol]
    ELSE With(column_mapping(cols, k - 1), LAMBDA m :
         LET std_col == sb_standard_columns[k]
             keys == df_col_map_keys(cols)
             sponsored == FirstKey(SelectSeq(keys, IsSponsoredAlias))
             refund == FirstKey(SelectSeq(keys, IsRefundAlias))
         IN  IF \E i \in 1..Len(cols) : cols[i].key = std_col.key
             THEN [m EXCEPT ![df_col_map(cols, std_col.key)] = std_col]
             ELSE IF "sponsored" \in Tokens(std_col.key) /\ "ppc" \in Tokens(std_col.key)
                  THEN IF sponsored # "" THEN [m EXCEPT ![df_col_map(cols, sponsored)] = std_col]
                       ELSE m
             ELSE IF "refund" \in Tokens(std_col.key) /\ "cost" \in Tokens(std_col.key)
                  THEN IF refund # "" THEN [m EXCEPT ![df_col_map(cols, refund)] = std_col]
                       ELSE m
             ELSE m)

\* the same of src/sellerboard.py: for a canonical name, the first column in
\* column order that passes the exact test or an alias test
LegacyMatch(std_col, col) ==
    \/ std_col.key = col.key
    \/ "sponsored" \in Tokens(std_col.key) /\ IsSponsoredAlias(col.key)
    \/ "refund" \in Tokens(std_col.key) /\ "cost" \in Tokens(std_col.key) /\ IsRefundAlias(col.key)

RECURSIVE legacy_column_mapping(_, _)
legacy_column_mapping(cols, k) ==
    IF k = 0 THEN [n \in ColNames(cols) |-> NoCol]
    ELSE With(legacy_column_mapping(cols, k - 1), LAMBDA m :
         LET std_col == sb_standard_columns[k]
             hits == SelectSeq(Indices(cols), LAMBDA i : LegacyMatch(std_col, cols[i]))
         IN  IF hits # <<>> THEN [m EXCEPT ![cols[hits[1]]] = std_col] ELSE m)

\* df.rename(columns=column_mapping)
rename(cols, m) == [i \in 1..Len(cols) |-> IF m[cols[i]] # NoCol THEN m[cols[i]] ELSE cols[i]]

\* the columns of the frame that carry the name n, each with the raw column it
\* came from
ColumnsNamed(cols, n) ==
    LET idx == SelectSeq(Indices(cols), LAMBDA i : cols[i] = n)
    IN  [j \in 1..Len(idx) |-> [name |-> n, src |-> idx[j]]]

\* df[available_columns], the missing columns added as pd.NA (src 0), then
\* df_filtered[standard_columns]
SelectStandard(cols) ==
    Concat([k \in 1..Len(sb_standard_columns) |->
              IF ColumnsNamed(cols, sb_standard_columns[k]) = <<>>
              THEN <<[name |-> sb_standard_columns[k], src |-> 0]>>
              ELSE ColumnsNamed(cols, sb_standard_columns[k])])

\* SBProcessor._standardize_columns of modules/sellerboard.py and of src/sellerboard.py
sb_standardize_columns(raw) ==
    LET cols == [i \in 1..Len(raw) |-> strip(raw[i])]
    IN  SelectStandard(rename(cols, column_mapping(cols, Len(sb_standard_columns))))
sb_standardize_columns_legacy(raw) ==
    LET cols == [i \in 1..Len(raw) |-> strip(raw[i])]
    IN  SelectStandard(rename(cols, legacy_column_mapping(cols, Len(sb_standard_columns))))

---------------------------------------------------------------------------
(* extract_date_from_filename: a file name is the sequence of its characters *)

IsDigit(c) == c \in {"0", "1", "2", "3", "4", "5", "6", "7", "8", "9"}
DigitVal(c) ==
    CASE c = "0" -> 0 [] c = "1" -> 1 [] c = "2" -> 2 [] c = "3" -> 3 [] c = "4" -> 4
      [] c = "5" -> 5 [] c = "6" -> 6 [] c = "7" -> 7 [] c = "8" -> 8 [] c = "9" -> 9

\* the number written by the n digits of s from position i
RECURSIVE Num(_, _, _)
Num(s, i, n) == IF n = 0 THEN 0 ELSE Num(s, i, n - 1) * 10 + DigitVal(s[i + n - 1])

\* \d{n}, a literal character and a literal text at position i of s
Digits(s, i, n) == i >= 1 /\ i + n - 1 <= Len(s) /\ \A k \in i..(i + n - 1) : IsDigit(s[k])
CharAt(s, i, c) == i >= 1 /\ i <= Len(s) /\ s[i] = c
Lit(s, i, lit) == i >= 1 /\ i + Len(lit) - 1 <= Len(s) /\ SubSeq(s, i, i + Len(lit) - 1) = lit

\* re.search: the leftmost position at which the pattern matches, 0 if none
FirstMatch(hits) == IF hits = {} THEN 0 ELSE CHOOSE i \in hits : \A j \in hits : i <= j

SA_Campaign_List == <<"S", "A", "_", "C", "a", "m", "p", "a", "i", "g", "n", "_", "L", "i", "s", "t", "_">>
dot_xlsx == <<".", "x", "l", "s", "x">>

\* r'(\d{2}_\d{2}_\d{4})', r'(\d{8})', r'(\d{4}-\d{2}-\d{2})' and
\* r'SA_Campaign_List_(\d{8})_\d{8}_.*\.xlsx'
pattern_dd_mm_yyyy(s, i) ==
    Digits(s, i, 2) /\ CharAt(s, i + 2, "_") /\ Digits(s, i + 3, 2) /\ CharAt(s, i + 5, "_")
        /\ Digits(s, i + 6, 4)
pattern_8_digits(s, i) == Digits(s, i, 8)
pattern_yyyy_mm_dd(s, i) ==
    Digits(s, i, 4) /\ CharAt(s, i + 4, "-") /\ Digits(s, i + 5, 2) /\ CharAt(s, i + 7, "-")
        /\ Digits(s, i + 8, 2)
pattern_campaign_list(s, i) ==
    /\ Lit(s, i, SA_Campaign_List)
    /\ Digits(s, i + Len(SA_Campaign_List), 8)
    /\ CharAt(s, i + Len(SA_Campaign_List) + 8, "_")
    /\ Digits(s, i + Len(SA_Campaign_List) + 9, 8)
    /\ CharAt(s, i + Len(SA_Campaign_List) + 17, "_")
    /\ \E j \in (i + Len(SA_Campaign_List) + 18)..Len(s) : Lit(s, j, dot_xlsx)

\* strptime of the matched text: "%d_%m_%Y", "%Y%m%d", "%Y-%m-%d"; NoDate
\* stands for the ValueError
ValidDate(y, m, d) == y >= 1 /\ y <= 9999 /\ m >= 1 /\ m <= 12 /\ d >= 1 /\ d <= DaysIn(y, m)
DateOrNone(y, m, d) == IF ValidDate(y, m, d) THEN MkDate(y, m, d) ELSE NoDate
parse_dd_mm_yyyy(s, i) == DateOrNone(Num(s, i + 6, 4), Num(s, i + 3, 2), Num(s, i, 2))
parse_yyyymmdd(s, i) == DateOrNone(Num(s, i, 4), Num(s, i + 4, 2), Num(s, i + 6, 2))
parse_yyyy_mm_dd(s, i) == DateOrNone(Num(s, i, 4), Num(s, i + 5, 2), Num(s, i + 8, 2))

\* pd.to_datetime raises also for a date outside the Timestamp range
to_datetime(dt) ==
    IF dt # NoDate /\ DateKey(dt) >= 16770922 /\ DateKey(dt) <= 22620411 THEN dt ELSE NoDate

\* what an extraction returned: the date, and whether it came from a pattern
\* ("matched"), is the current date ("now"), is None ("none"), or the call raised
Extracted(dt, how) == [date |-> dt, how |-> how]

\* SBProcessor.extract_date_from_filename
sb_extract_date_from_filename(s) ==
    LET i == FirstMatch({pos \in 1..Len(s) : pattern_dd_mm_yyyy(s, pos)})
    IN  IF i = 0 THEN Extracted(NoDate, "none")
        ELSE IF parse_dd_mm_yyyy(s, i) = NoDate THEN Extracted(NoDate, "raised")
        ELSE Extracted(parse_dd_mm_yyyy(s, i), "matched")

\* DSPProcessor.extract_date_from_filename
dsp_extract_date_from_filename(s) ==
    LET i == FirstMatch({pos \in 1..Len(s) : pattern_8_digits(s, pos)})
    IN  IF i = 0 \/ parse_yyyymmdd(s, i) = NoDate THEN Extracted(NoDate, "none")
        ELSE Extracted(parse_yyyymmdd(s, i), "matched")

\* PPCProcessor.extract_date_from_filename: the patterns in order, the first
\* that matches and parses; the current date when none does
ppc_pattern_date(s, k) ==
    LET campaign == FirstMatch({pos \in 1..Len(s) : pattern_campaign_list(s, pos)})
        eight == FirstMatch({pos \in 1..Len(s) : pattern_8_digits(s, pos)})
        dmy == FirstMatch({pos \in 1..Len(s) : pattern_dd_mm_yyyy(s, pos)})
        ymd == FirstMatch({pos \in 1..Len(s) : pattern_yyyy_mm_dd(s, pos)})
    IN  CASE k = 1 -> IF campaign = 0 THEN NoDate
                      ELSE to_datetime(parse_yyyymmdd(s, campaign + Len(SA_Campaign_List)))
          [] k = 2 -> IF eight = 0 THEN NoDate ELSE to_datetime(parse_yyyymmdd(s, eight))
          [] k = 3 -> IF dmy = 0 THEN NoDate ELSE to_datetime(parse_dd_mm_yyyy(s, dmy))
          [] k = 4 -> IF ymd = 0 THEN NoDate ELSE to_datetime(parse_yyyy_mm_dd(s, ymd))

RECURSIVE ppc_try_patterns(_, _)
ppc_try_patterns(s, k) ==
    IF k > 4 THEN Extracted(Today, "now")
    ELSE IF ppc_pattern_date(s, k) # NoDate THEN Extracted(ppc_pattern_date(s, k), "matched")
    ELSE ppc_try_patterns(s, k + 1)

ppc_extract_date_from_filename(s) == ppc_try_patterns(s, 1)

---------------------------------------------------------------------------
(* Inputs *)

D1014 == MkDate(2025, 10, 14)
D1015 == MkDate(2025, 10, 15)
D1016 == MkDate(2025, 10, 16)
D0511 == MkDate(2025, 5, 11)

\* the tables handed to append_to_sheets: n rows of one day, told apart by
\* their Sales, with the first column filled or null throughout
DfOf(n, a) == [i \in 1..n |-> TRow(a, D1016, "c1", i)]
DfSet(maxn) == {DfOf(n, a) : n \in 0..maxn, a \in {"P1", NA}}

NumChunks(n) == IF n <= chunk_size THEN 1 ELSE (n + chunk_size - 1) \div chunk_size
WriteFails(df) == {FailWrite(k) : k \in 1..NumChunks(Len(df))}

\* a data row already in the worksheet, its Date cell written in format fmt
OldRow(dt, fmt) == SheetRow(Text("P0"), strftime(dt, fmt), Text("c0"), Number(0), dt)
\* data rows whose Date cell is blank, is no date, or is missing with all that follows it
UndatedRows ==
    { SheetRow(Text("P0"), Blank, Text("c0"), Number(0), NoDate),
      SheetRow(Text("P0"), Text("n/a"), Text("c0"), Number(0), NoDate),
      SheetRow(Text("P0"), Blank, Blank, Blank, NoDate) }

SheetDates == {D0511, D1014, D1015, D1016}
Formats == {date_formats[i] : i \in 1..Len(date_formats)}

SheetsOf(rows, n) == {<<standard_columns>> \o body : body \in SeqsUpTo(rows, n)}

\* worksheets the appends start from: the header and rows the tool appended earlier
InitSheets(n) == SheetsOf({OldRow(D1014, "%m/%d/%Y")}, n)

\* worksheets whose dated rows were all written in one of the supported formats
DatedSheets(fmt) ==
    SheetsOf({OldRow(dt, fmt) : dt \in SheetDates} \cup UndatedRows, MaxDatedRows)

Cutoffs == {D1015}
DeleteFails == {FailAt("read"), FailAt("clear"), FailAt("rewrite")}

\* an uploaded file's rows and name date
FileRows == {FileRow("B1", "c1", 1), FileRow("B2", "c1", 2), FileRow("B1", "c1", NaN)}
FileSet(maxn) == {File(dt, rows) : dt \in {D1014, NoDate}, rows \in SeqsUpTo(FileRows, maxn)}

NoMerge == [module |-> "", df |-> <<>>, processed_files |-> <<>>, concat |-> <<>>, errors |-> {}]

\* a processor object as __init__ leaves it: client, spreadsheet and worksheet None
FreshConn == [client |-> FALSE, spreadsheet |-> FALSE, worksheet |-> FALSE, opened |-> "none",
              init_writes |-> 0]

\* no per-file function applied yet
NoInput == [kind |-> "none", v |-> <<>>]
NoSession == [page |-> "none"]
NoOutput == [fn |-> "none", v |-> <<>>]

\* raw headers of an uploaded table: no two alike as read from the file
RawHeaders ==
    { RawHeader("sales", "std", FALSE), RawHeader("sales", "upper", FALSE),
      RawHeader("sales", "std", TRUE),
      RawHeader("sponsored products (ppc)", "std", FALSE),
      RawHeader("sponsored products (ppc)", "upper", FALSE),
      RawHeader("sponsored ppc spend", "std", FALSE),
      RawHeader("refund cost", "std", FALSE),
      RawHeader("refund <U+0441>ost", "std", FALSE),
      RawHeader("other", "std", FALSE) }
\* rows of a merged table, each cell null or not
TypedRows == {TRow(a, dt, c, n) : a \in {"P1", NA}, dt \in {D1015, NoDate}, c \in {"c1", NA}, n \in {7, NaN}}
RawTables(n) ==
    {t \in SeqsUpTo(RawHeaders, n) : \A i, j \in 1..Len(t) : i # j => t[i] # t[j]}


\* file names: a date text (or other text) between a prefix and a suffix
Txt_15_10_2025 == <<"1", "5", "_", "1", "0", "_", "2", "0", "2", "5">>
Txt_20251015 == <<"2", "0", "2", "5", "1", "0", "1", "5">>
NameCores ==
    { Txt_15_10_2025, Txt_20251015,
      <<"2", "0", "2", "5", "-", "1", "0", "-", "1", "5">>,
      <<"3", "1", "_", "0", "2", "_", "2", "0", "2", "5">>,
      <<"2", "0", "2", "5", "1", "3", "1", "5">>,
      <<"r", "e", "p", "o", "r", "t">>,
      <<"v", "7">> }
NamePrefixes == {<<>>, <<"S", "B", "_">>, <<"S", "A", "_", "C", "a", "m", "p", "a", "i", "g", "n", "_", "L", "i", "s", "t", "_", "2", "0", "2", "5", "1", "0", "1", "6", "_">>}
NameSuffixes == {dot_xlsx, <<"_", "x", ".", "x", "l", "s", "x">>, <<"_", "1", "4", "_", "1", "0", "_", "2", "0", "2", "5", ".", "x", "l", "s", "x">>}
Filenames == {p \o c \o x : p \in NamePrefixes, c \in NameCores, x \in NameSuffixes}

\* Creative texts of 5, 10 and 20 characters (and shorter ones), and the null one
CreativeHeads == {<<"b", "0", "a", "b", "c">>, <<"B", "0", "C", "D", "E">>, <<"b", "0", "-", "x", " ">>, <<"b", "0">>}
CreativeTails == {<<>>, <<"x", "9", "d", "1", "e">>, <<"_", "b", "a", "n", "n", "e", "r", "-", "a", "_", "3", "0", "0", "x">>\o <<"2">>}
Creatives == {h \o t : h \in CreativeHeads, t \in CreativeTails} \cup {NullText}

\* the files of a batch uploaded to the page of module m: tables of rows
\* (some with every cell null), files that cannot be read and, for DSP, a
\* table without the Creative column
BatchRows(m) ==
    IF m = "DSP" THEN {FileRow(<<"b", "0", "a", "b", "c">>, "c1", 1), FileRow(NullText, "c1", 2)}
    ELSE {FileRow("B1", "c1", 1), FileRow(NA, NA, NaN)}
BatchFiles(m, n) ==
    {UnreadableFile}
        \cup {File(dt, rows) : dt \in {D1014, NoDate}, rows \in SeqsUpTo(BatchRows(m), n)}
        \cup (IF m = "DSP" THEN {NoCreativeFile(D1014, <<FileRow(NullText, "c1", 1)>>)} ELSE {})

---------------------------------------------------------------------------
(* _init_google_sheets: the memoized connection and open-or-create          *)

created_rows == 3         \* rows="1000" in the source, scaled
dsp_created_rows == 4     \* rows="2000" in the source, scaled

\* What _init_google_sheets leaves: the processor's client, spreadsheet and
\* worksheet (TRUE when set), how the call went ("skipped" when the client was
\* already set, "found", "created", "raised"), whether the remote worksheet
\* exists, and the sync state with the writes issued so far.
Opened(c, ex, st, how) == [conn |-> [c EXCEPT !.opened = how], exists |-> ex, st |-> st]
InitRaised(c, ex, st) == Opened(c, ex, [st EXCEPT !.raised = TRUE], "raised")

\* SBProcessor._init_google_sheets and PPCProcessor._init_google_sheets
sb_init_google_sheets(c, ex, ws, rc, fail) ==
    LET st0 == NewSync(ws, rc)
        c1 == [c EXCEPT !.client = TRUE]
        c2 == [c1 EXCEPT !.spreadsheet = TRUE]
        c3 == [c2 EXCEPT !.worksheet = TRUE]
    IN  IF c.client THEN Opened(c, ex, st0, "skipped")
        ELSE IF fail.at = "creds" THEN InitRaised(c, ex, st0)
        ELSE IF fail.at = "open" THEN InitRaised(c1, ex, st0)
        ELSE IF fail.at = "locate" THEN InitRaised(c2, ex, st0)
        ELSE IF ex THEN Opened(c3, ex, st0, "found")
        ELSE IF fail.at = "create" THEN InitRaised(c2, ex, st0)
        ELSE With(Update(NewSync(<<>>, created_rows), 1, <<standard_columns>>, fail.at = "header"),
                  LAMBDA hdr : IF hdr.raised THEN InitRaised(c3, TRUE, hdr)
                               ELSE Opened(c3, TRUE, hdr, "created"))

\* DSPProcessor._init_google_sheets: the worksheet is looked up on every call,
\* and a created worksheet gets no header
dsp_init_google_sheets(c, ex, ws, rc, fail) ==
    LET st0 == NewSync(ws, rc)
        c1 == IF c.client THEN c
              ELSE IF fail.at = "creds" THEN c
              ELSE IF fail.at = "open" THEN [c EXCEPT !.client = TRUE]
              ELSE [c EXCEPT !.client = TRUE, !.spreadsheet = TRUE]
        c2 == [c1 EXCEPT !.worksheet = TRUE]
    IN  IF ~c.client /\ fail.at \in {"creds", "open"} THEN InitRaised(c1, ex, st0)
        ELSE IF ~c1.spreadsheet THEN InitRaised(c1, ex, st0)
        ELSE IF fail.at = "locate" THEN InitRaised(c1, ex, st0)
        ELSE IF ex THEN Opened(c2, ex, st0, "found")
        ELSE IF fail.at = "create" THEN InitRaised(c1, ex, st0)
        ELSE Opened(c2, TRUE, NewSync(<<>>, dsp_created_rows), "created")

\* (variant: a failed initialization is not noticed)
InitFailureIgnored(h) == FALSE
\* the call cannot go on: _init_google_sheets raised (or returned False), or
\* it was skipped and self.worksheet is still None
InitFailed(h) == h.st.raised \/ ~h.conn.worksheet

\* append_to_sheets ending at the initialization
Aborted(m, h, df, cutoff, fail, result) ==
    [st |-> [h.st EXCEPT !.raised = TRUE],
     call |-> CallRec(m, cutoff, fail, FALSE, NoDelete(NewSync(h.st.ws, h.st.rc)),
                      0, 0, 0, 0, 0, values_to_append(df), result),
     conn |-> [h.conn EXCEPT !.init_writes = Len(h.st.log)],
     exists |-> h.exists]

\* append_to_sheets going on after the initialization h: r is what the rest of
\* the call did on the worksheet h opened
Continued(h, r) ==
    [st |-> [r.st EXCEPT !.log = h.st.log \o r.st.log],
     call |-> r.call,
     conn |-> [h.conn EXCEPT !.init_writes = Len(h.st.log)],
     exists |-> h.exists]

\* the whole of append_to_sheets of the three processors on a non-empty table
SBAppendSync(c, ex, ws, rc, df, delete_from_date, fail) ==
    With(sb_init_google_sheets(c, ex, ws, rc, fail), LAMBDA h :
        IF InitFailed(h) THEN Aborted("SB", h, df, delete_from_date, fail, "raised")
        ELSE With(SBAppendRun(h.st.ws, h.st.rc, df, delete_from_date, fail),
                  LAMBDA r : Continued(h, r)))

PPCAppendSync(c, ex, ws, rc, df, fail) ==
    With(sb_init_google_sheets(c, ex, ws, rc, fail), LAMBDA h :
        IF InitFailed(h) THEN Aborted("PPC", h, df, NoCutoff, fail, "raised")
        ELSE With(PPCAppendRun(h.st.ws, h.st.rc, df, fail), LAMBDA r : Continued(h, r)))

DSPAppendSync(c, ex, ws, rc, df, fail) ==
    With(dsp_init_google_sheets(c, ex, ws, rc, fail), LAMBDA h :
        IF InitFailed(h) THEN Aborted("DSP", h, df, NoCutoff, fail, "false")
        ELSE With(DSPAppendRun(h.st.ws, h.st.rc, df, fail), LAMBDA r : Continued(h, r)))

---------------------------------------------------------------------------
(* Dimension tables: clear_and_upload_to_sheets of ASINProcessor,           *)
(* FBAInventoryProcessor and LaunchingProcessor.  Here a worksheet row is   *)
(* the tuple of its cells, column A first, and a cell is its text.          *)

launch_cols == 2           \* the 16 columns A..P of standard_columns, scaled
launch_default_rows == 3   \* total_rows = 1000 for a sheet without values, scaled

EmptyCell == ""
EmptyGridRow(w) == [j \in 1..w |-> EmptyCell]
IsEmptyGridRow(r) == \A j \in 1..Len(r) : r[j] = EmptyCell

RECURSIVE TrimGrid(_)
TrimGrid(g) ==
    IF g = <<>> THEN g
    ELSE IF IsEmptyGridRow(g[Len(g)]) THEN TrimGrid(SubSeq(g, 1, Len(g) - 1))
    ELSE g

\* a table in memory: its column names and its rows, each a tuple of cells
DimTable(columns, rows) == [columns |-> columns, rows |-> rows]

\* the grid of width w after worksheet.update(values, "A{first}:..") : the
\* cells of the columns the values cover are replaced, the others are kept
GridWrite(g, w, first, values) ==
    LET last == first + Len(values) - 1
        old(i) == IF i <= Len(g) THEN g[i] ELSE EmptyGridRow(w)
    IN  TrimGrid([i \in 1..Max(Len(g), last) |->
                    IF i >= first /\ i <= last
                    THEN [j \in 1..w |-> IF j <= Len(values[i - first + 1])
                                         THEN values[i - first + 1][j] ELSE old(i)[j]]
                    ELSE old(i)])

\* One worksheet.update call on a grid of width w: logged as issued; it raises
\* when the remote call fails or the range reaches below the grid.
GridUpdate(st, w, first, values, fails) ==
    LET last == first + Len(values) - 1
        issued == Append(st.log, [first |-> first, last |-> last, rc |-> st.rc, values |-> values])
    IN  IF fails \/ last > st.rc
        THEN [st EXCEPT !.log = issued, !.raised = TRUE]
        ELSE [st EXCEPT !.log = issued, !.ws = GridWrite(st.ws, w, first, values)]

\* (variant: nothing is cleared)
ClearNothing(g) == g
\* worksheet.clear()
clear(g) == <<>>

\* (variant: the whole rows 1..total_rows are cleared)
batch_clear_rows(g, w, total_rows) ==
    TrimGrid([i \in 1..Len(g) |-> IF i <= total_rows THEN EmptyGridRow(w) ELSE g[i]])
\* worksheet.batch_clear(["A1:P{total_rows}"])
batch_clear_A_P(g, w, total_rows) ==
    TrimGrid([i \in 1..Len(g) |->
                [j \in 1..w |-> IF i <= total_rows /\ j <= launch_cols THEN EmptyCell ELSE g[i][j]]])

\* _init_google_sheets of the three dimension processors: as that of
\* SBProcessor, a created worksheet getting no header
dim_init_google_sheets(c, ex, ws, rc, fail) ==
    LET st0 == NewSync(ws, rc)
        c1 == [c EXCEPT !.client = TRUE]
        c2 == [c1 EXCEPT !.spreadsheet = TRUE]
        c3 == [c2 EXCEPT !.worksheet = TRUE]
    IN  IF c.client THEN Opened(c, ex, st0, "skipped")
        ELSE IF fail.at = "creds" THEN InitRaised(c, ex, st0)
        ELSE IF fail.at = "open" THEN InitRaised(c1, ex, st0)
        ELSE IF fail.at = "locate" THEN InitRaised(c2, ex, st0)
        ELSE IF ex THEN Opened(c3, ex, st0, "found")
        ELSE IF fail.at = "create" THEN InitRaised(c2, ex, st0)
        ELSE Opened(c3, TRUE, NewSync(<<>>, created_rows), "created")

\* what a call of clear_and_upload_to_sheets was given and how it ended
ReplaceRec(m, df, fail, before, result) ==
    [op |-> "replace", module |-> m, table |-> df, fail |-> fail, before |-> before,
     result |-> result]

Replaced(m, df, fail, h, st) ==
    [st |-> st,
     call |-> ReplaceRec(m, df, fail, h.st.ws, IF st.raised THEN "raised" ELSE "ok"),
     conn |-> [h.conn EXCEPT !.init_writes = 0],
     exists |-> h.exists]

\* the header update and the data update from row 2
UploadHeaderAndRows(st, w, columns, rows, fail) ==
    With(GridUpdate(st, w, 1, <<columns>>, fail.at = "header"), LAMBDA hdr :
        IF hdr.raised \/ rows = <<>> THEN hdr
        ELSE GridUpdate(hdr, w, 2, rows, fail.at = "write"))

\* ASINProcessor.clear_and_upload_to_sheets and
\* FBAInventoryProcessor.clear_and_upload_to_sheets on a non-empty table
DimReplaceRun(m, c, ex, ws, rc, w, df, fail) ==
    With(dim_init_google_sheets(c, ex, ws, rc, fail), LAMBDA h :
        IF InitFailed(h) THEN Replaced(m, df, fail, h, [h.st EXCEPT !.raised = TRUE])
        ELSE IF fail.at = "clear" THEN Replaced(m, df, fail, h, [h.st EXCEPT !.raised = TRUE])
        ELSE Replaced(m, df, fail, h,
                      UploadHeaderAndRows([h.st EXCEPT !.ws = clear(h.st.ws)], w,
                                          df.columns, df.rows, fail)))

\* LaunchingProcessor.clear_and_upload_to_sheets on a non-empty table
LaunchingReplaceRun(c, ex, ws, rc, w, df, fail) ==
    With(dim_init_google_sheets(c, ex, ws, rc, fail), LAMBDA h :
        LET all_values == TrimGrid(h.st.ws)
            total_rows == IF all_values # <<>> THEN Len(all_values) ELSE launch_default_rows
        IN  IF InitFailed(h) \/ fail.at \in {"read", "clear"}
            THEN Replaced("LAUNCH", df, fail, h, [h.st EXCEPT !.raised = TRUE])
            ELSE Replaced("LAUNCH", df, fail, h,
                          UploadHeaderAndRows(
                              [h.st EXCEPT !.ws = batch_clear_A_P(h.st.ws, w, total_rows)], w,
                              df.columns, df.rows, fail)))

---------------------------------------------------------------------------
(* sellerboard_page: the script is rerun from the top at every interaction, *)
(* st.session_state and the widgets' values being kept between reruns       *)

Markets == {"US", "CA", "UK"}

\* the page before any interaction: market US, no files in the uploader
FreshPage ==
    [page |-> "sellerboard", selected_market |-> "US", uploaded |-> <<>>,
     last_processed_files |-> <<>>, processor |-> "none", result_df |-> <<>>,
     pushes |-> 0, target_shown |-> "none"]

\* process_files on the uploaded files: one row for every file that holds data
\* (a file named "e" holds none)
page_result_df(names) == DfOf(Len(SelectSeq(names, LAMBDA n : n # "e")), "P1")

\* the files in the uploader are not those processed last: a new SBProcessor
\* for the selected market processes them
MustProcess(s) == s.uploaded # <<>> /\ s.uploaded # s.last_processed_files

\* the body of the script below the widgets: processing when the file names
\* changed; when it raises, the kept results are deleted
rerun(s, raises) ==
    IF ~MustProcess(s) THEN s
    ELSE IF raises
         THEN [s EXCEPT !.processor = "none", !.result_df = <<>>, !.last_processed_files = <<>>]
         ELSE [s EXCEPT !.processor = s.selected_market,
                        !.result_df = page_result_df(s.uploaded),
                        !.last_processed_files = s.uploaded]

---------------------------------------------------------------------------
(* update_metrics of modules/dsp_xnurta.py: the upload counters kept in     *)
(* st.session_state                                                         *)

\* st.session_state without the keys of the metrics
NoMetrics ==
    [page |-> "dsp", initialized |-> FALSE, last_upload_date |-> NoDate,
     total_uploads |-> 0, successful_uploads |-> 0, failed_uploads |-> 0,
     today_uploads |-> 0, active_markets |-> {}]

\* (variant: a failed upload is not counted as failed)
count_success_only(s, success) ==
    IF success THEN [s EXCEPT !.successful_uploads = @ + 1] ELSE s
\* if success: successful_uploads += 1, else: failed_uploads += 1
count_outcome(s, success) ==
    IF success THEN [s EXCEPT !.successful_uploads = @ + 1]
    ELSE [s EXCEPT !.failed_uploads = @ + 1]

update_metrics(s, success, market, current_date) ==
    LET s1 == IF ~s.initialized
              THEN [NoMetrics EXCEPT !.initialized = TRUE, !.last_upload_date = current_date]
              ELSE s
        s2 == IF s1.last_upload_date # current_date
              THEN [s1 EXCEPT !.today_uploads = 0, !.last_upload_date = current_date]
              ELSE s1
        s3 == [s2 EXCEPT !.total_uploads = @ + 1, !.today_uploads = @ + 1]
    IN  [count_outcome(s3, success) EXCEPT !.active_markets = @ \cup {market}]

---------------------------------------------------------------------------
(* Actions *)

Finish(r) ==
    /\ worksheet' = r.st.ws
    /\ row_count' = r.st.rc
    /\ writes' = r.st.log
    /\ call' = r.call
    /\ conn' = r.conn
    /\ exists' = r.exists
    /\ ops' = ops + 1
    /\ UNCHANGED <<module, files, merged, input, output, session_state>>

\* append_to_sheets with an empty table returns at once
NoData(m) ==
    [st |-> NewSync(worksheet, row_count),
     call |-> CallRec(m, NoCutoff, NoFail, FALSE, NoDelete(NewSync(worksheet, row_count)),
                      0, 0, 0, 0, 0, <<>>, "nodata"),
     conn |-> [conn EXCEPT !.opened = "none", !.init_writes = 0],
     exists |-> exists]

SBAppend(df, delete_from_date, fail) ==
    /\ module = "SB"
    /\ ops < MaxOps
    /\ \E r \in {IF df = <<>> THEN NoData("SB")
                  ELSE SBAppendSync(conn, exists, worksheet, row_count, df, delete_from_date, fail)} :
          Finish(r)

PPCAppend(df, fail) ==
    /\ module = "PPC"
    /\ ops < MaxOps
    /\ \E r \in {IF df = <<>> THEN NoData("PPC")
                  ELSE PPCAppendSync(conn, exists, worksheet, row_count, df, fail)} :
          Finish(r)

DSPAppend(df, fail) ==
    /\ module = "DSP"
    /\ ops < MaxOps
    /\ \E r \in {IF df = <<>> THEN NoData("DSP")
                  ELSE DSPAppendSync(conn, exists, worksheet, row_count, df, fail)} :
          Finish(r)

\* clear_and_upload_to_sheets with an empty table returns False at once
ReplaceNoData(m, df) ==
    [st |-> NewSync(worksheet, row_count),
     call |-> ReplaceRec(m, df, NoFail, worksheet, "nodata"),
     conn |-> [conn EXCEPT !.opened = "none", !.init_writes = 0],
     exists |-> exists]

ASINReplace(df, fail) ==
    /\ module = "ASIN"
    /\ ops < MaxOps
    /\ \E r \in {IF df.rows = <<>> THEN ReplaceNoData("ASIN", df)
                  ELSE DimReplaceRun("ASIN", conn, exists, worksheet, row_count, MaxGridCols, df, fail)} :
          Finish(r)

FBAReplace(df, fail) ==
    /\ module = "FBA"
    /\ ops < MaxOps
    /\ \E r \in {IF df.rows = <<>> THEN ReplaceNoData("FBA", df)
                  ELSE DimReplaceRun("FBA", conn, exists, worksheet, row_count, MaxGridCols, df, fail)} :
          Finish(r)

LaunchingReplace(df, fail) ==
    /\ module = "LAUNCH"
    /\ ops < MaxOps
    /\ \E r \in {IF df.rows = <<>> THEN ReplaceNoData("LAUNCH", df)
                  ELSE LaunchingReplaceRun(conn, exists, worksheet, row_count, MaxGridCols, df, fail)} :
          Finish(r)

\* an interaction that is not a push: the widget's new value, then the rerun
PageEvent(s, raises) ==
    /\ ops < MaxEvents
    /\ ops' = ops + 1
    /\ session_state' = rerun(s, raises)
    /\ conn' = IF MustProcess(s) THEN FreshConn ELSE conn
    /\ UNCHANGED <<module, worksheet, row_count, writes, call, files, merged, exists, input, output>>

\* a click on a market button
PageSelectMarket(market, raises) ==
    PageEvent([session_state EXCEPT !.selected_market = market], raises)

\* files dropped into, or removed from, the uploader
PageUpload(names, raises) ==
    PageEvent([session_state EXCEPT !.uploaded = names], raises)

\* a click on "Push to Google Sheets", shown when files are in the uploader
\* and a non-empty result is kept: st.session_state.processor.append_to_sheets
PagePush ==
    /\ ops < MaxEvents
    /\ session_state.uploaded # <<>> /\ ~MustProcess(session_state)
    /\ session_state.result_df # <<>>
    /\ LET target == session_state.processor
       IN  \E r \in {SBAppendSync(conn, TRUE, worksheet[target], row_count[target],
                                   session_state.result_df, NoCutoff, NoFail)} :
              /\ worksheet' = [worksheet EXCEPT ![target] = r.st.ws]
              /\ row_count' = [row_count EXCEPT ![target] = r.st.rc]
              /\ writes' = r.st.log
              /\ call' = r.call
              /\ conn' = r.conn
    /\ session_state' = [session_state EXCEPT !.pushes = @ + 1,
                                              !.target_shown = session_state.selected_market]
    /\ ops' = ops + 1
    /\ UNCHANGED <<module, files, merged, exists, input, output>>

\* one call of update_metrics, made by the DSP page after an upload attempt
UpdateMetrics(success, market, current_date) ==
    /\ ops < MaxUploads
    /\ ops' = ops + 1
    /\ session_state' = update_metrics(session_state, success, market, current_date)
    /\ call' = [op |-> "update_metrics", success |-> success, market |-> market,
                current_date |-> current_date]
    /\ UNCHANGED <<module, worksheet, row_count, writes, files, merged, conn, exists, input, output>>

PPCProcess ==
    /\ merged' = ppc_process_files(files)
    /\ UNCHANGED <<files, module, worksheet, row_count, writes, call, ops, conn, exists, input, output,
                   session_state>>

SBProcess(completed) ==
    /\ merged' = sb_process_files(files, completed)
    /\ UNCHANGED <<files, module, worksheet, row_count, writes, call, ops, conn, exists, input, output,
                   session_state>>

DSPProcess ==
    /\ merged' = dsp_process_files(files)
    /\ UNCHANGED <<files, module, worksheet, row_count, writes, call, ops, conn, exists, input, output,
                   session_state>>

\* a per-file function applied to the input
Apply(fn, v) ==
    /\ output' = [fn |-> fn, v |-> v]
    /\ UNCHANGED <<input, module, worksheet, row_count, writes, call, ops, files, merged, conn, exists,
                   session_state>>

SBStandardize ==
    /\ input.kind = "headers"
    /\ Apply("_standardize_columns", sb_standardize_columns(input.v))

SBStandardizeLegacy ==
    /\ input.kind = "headers"
    /\ Apply("_standardize_columns (src/sellerboard.py)", sb_standardize_columns_legacy(input.v))

SBExtractDate ==
    /\ input.kind = "filename"
    /\ Apply("SB.extract_date_from_filename", sb_extract_date_from_filename(input.v))

PPCExtractDate ==
    /\ input.kind = "filename"
    /\ Apply("PPC.extract_date_from_filename", ppc_extract_date_from_filename(input.v))

DSPExtractDate ==
    /\ input.kind = "filename"
    /\ Apply("DSP.extract_date_from_filename", dsp_extract_date_from_filename(input.v))

DSPDeriveAsin ==
    /\ input.kind = "creative"
    /\ Apply("ASIN", dsp_asin(input.v))

SBSerialize ==
    /\ input.kind = "row"
    /\ Apply("row_values", SerializeRow(input.v))

AppSerialize ==
    /\ input.kind = "row"
    /\ Apply("row_values (src/sellerboard_app.py)", app_serialize_row(input.v))

---------------------------------------------------------------------------
(* Spec: appends of the three processors to a worksheet *)

Init ==
    /\ module \in {"SB", "PPC", "DSP"}
    /\ worksheet \in InitSheets(MaxInitRows)
    /\ row_count = Max(SheetCapacity, Len(worksheet))
    /\ writes = <<>>
    /\ call = NoCall
    /\ ops = 0
    /\ files = <<>>
    /\ merged = NoMerge
    /\ conn = FreshConn
    /\ exists = TRUE
    /\ input = NoInput
    /\ output = NoOutput
    /\ session_state = NoSession

SBAppendPlain == \E df \in DfSet(MaxDfRows) : \E fail \in {NoFail, FailAt("count")} \cup WriteFails(df) :
                    SBAppend(df, NoCutoff, fail)
SBAppendFrom == \E df \in DfSet(MaxDfRows) : \E cutoff \in Cutoffs : SBAppend(df, cutoff, NoFail)
PPCAppendAny == \E df \in DfSet(MaxDfRows) : \E fail \in {NoFail, FailAt("count"), FailWrite(1)} :
                    PPCAppend(df, fail)
DSPAppendAny == \E df \in DfSet(MaxDfRows) : \E fail \in {NoFail, FailAt("read"), FailWrite(1)} :
                    DSPAppend(df, fail)

Next == SBAppendPlain \/ SBAppendFrom \/ PPCAppendAny \/ DSPAppendAny

Spec == Init /\ [][Next]_vars

---------------------------------------------------------------------------
(* SpecDated: one Sellerboard append, with or without a cut-off date, to a *)
(* worksheet that holds dated rows                                         *)

InitDated ==
    /\ module = "SB"
    /\ \E fmt \in Formats : worksheet \in DatedSheets(fmt)
    /\ row_count = Max(SheetCapacity, Len(worksheet))
    /\ writes = <<>>
    /\ call = NoCall
    /\ ops = MaxOps - 1
    /\ files = <<>>
    /\ merged = NoMerge
    /\ conn = FreshConn
    /\ exists = TRUE
    /\ input = NoInput
    /\ output = NoOutput
    /\ session_state = NoSession

SBAppendDated ==
    \E cutoff \in Cutoffs \cup {NoCutoff} :
        \E fail \in {NoFail} \cup (IF cutoff = NoCutoff THEN {} ELSE DeleteFails) :
            SBAppend(DfOf(1, "P1"), cutoff, fail)

NextDated == SBAppendDated

SpecDated == InitDated /\ [][NextDated]_vars

---------------------------------------------------------------------------
(* SpecRange: one Sellerboard append of n rows to a worksheet of k data rows *)

InitRange ==
    /\ module = "SB"
    /\ worksheet \in {<<standard_columns>> \o [i \in 1..k |-> OldRow(D1014, "%m/%d/%Y")]
                      : k \in 0..MaxExisting}
    /\ row_count = Max(SheetCapacity, Len(worksheet))
    /\ writes = <<>>
    /\ call = NoCall
    /\ ops = MaxOps - 1
    /\ files = <<>>
    /\ merged = NoMerge
    /\ conn = FreshConn
    /\ exists = TRUE
    /\ input = NoInput
    /\ output = NoOutput
    /\ session_state = NoSession

SBAppendRows == \E n \in 1..MaxNew : SBAppend(DfOf(n, "P1"), NoCutoff, NoFail)

NextRange == SBAppendRows

SpecRange == InitRange /\ [][NextRange]_vars

---------------------------------------------------------------------------
(* SpecMerge: process_files over a batch of uploaded files *)

InitMerge ==
    /\ files \in SeqsUpTo(FileSet(MaxFileRows), MaxFiles)
    /\ merged = NoMerge
    /\ module = ""
    /\ worksheet = <<>>
    /\ row_count = 0
    /\ writes = <<>>
    /\ call = NoCall
    /\ ops = 0
    /\ conn = FreshConn
    /\ exists = TRUE
    /\ input = NoInput
    /\ output = NoOutput
    /\ session_state = NoSession

SBProcessAny == \E completed \in Orders(Len(files)) : SBProcess(completed)

NextMerge == PPCProcess \/ SBProcessAny

SpecMerge == InitMerge /\ [][NextMerge]_vars

---------------------------------------------------------------------------
(* SpecPerFile: the per-file functions applied to one input *)

InitPerFile ==
    /\ input \in [kind : {"headers"}, v : RawTables(MaxCols)]
                  \cup [kind : {"filename"}, v : Filenames]
                  \cup [kind : {"creative"}, v : Creatives]
                  \cup [kind : {"row"}, v : TypedRows]
    /\ output = NoOutput
    /\ session_state = NoSession
    /\ files = <<>>
    /\ merged = NoMerge
    /\ module = ""
    /\ worksheet = <<>>
    /\ row_count = 0
    /\ writes = <<>>
    /\ call = NoCall
    /\ ops = 0
    /\ conn = FreshConn
    /\ exists = TRUE

NextPerFile ==
    \/ SBStandardize \/ SBStandardizeLegacy
    \/ SBExtractDate \/ PPCExtractDate \/ DSPExtractDate
    \/ DSPDeriveAsin
    \/ SBSerialize \/ AppSerialize

SpecPerFile == InitPerFile /\ [][NextPerFile]_vars

---------------------------------------------------------------------------
(* SpecBatch: a batch with rejected, empty and all-null files is processed *)
(* on the page of one module, and the Sellerboard result is pushed         *)

InitBatch ==
    /\ module \in {"SB", "PPC", "DSP"}
    /\ files \in SeqsUpTo(BatchFiles(module, MaxFileRows), MaxFiles)
    /\ merged = NoMerge
    /\ worksheet = <<standard_columns>>
    /\ row_count = SheetCapacity
    /\ writes = <<>>
    /\ call = NoCall
    /\ ops = 0
    /\ conn = FreshConn
    /\ exists = TRUE
    /\ input = NoInput
    /\ output = NoOutput
    /\ session_state = NoSession

SBBatchProcess == module = "SB" /\ SBProcessAny
PPCBatchProcess == module = "PPC" /\ PPCProcess
DSPBatchProcess == module = "DSP" /\ DSPProcess
SBBatchPush == merged.module = "SB" /\ SBAppend(merged.df, NoCutoff, NoFail)

NextBatch == SBBatchProcess \/ PPCBatchProcess \/ DSPBatchProcess \/ SBBatchPush

SpecBatch == InitBatch /\ [][NextBatch]_vars

---------------------------------------------------------------------------
(* SpecConnect: sync attempts of one processor object, kept by the page    *)
(* between attempts, on a worksheet that may not exist yet; any step of    *)
(* _init_google_sheets may fail in an attempt                              *)

ConnectFails == {NoFail, FailAt("creds"), FailAt("open"), FailAt("locate"),
                 FailAt("create"), FailAt("header")}

InitConnect ==
    /\ module \in {"SB", "PPC", "DSP"}
    /\ exists \in BOOLEAN
    /\ worksheet \in IF exists THEN InitSheets(MaxInitRows) ELSE {<<>>}
    /\ row_count = IF exists THEN Max(SheetCapacity, Len(worksheet)) ELSE 0
    /\ writes = <<>>
    /\ call = NoCall
    /\ ops = 0
    /\ files = <<>>
    /\ merged = NoMerge
    /\ conn = FreshConn
    /\ input = NoInput
    /\ output = NoOutput
    /\ session_state = NoSession

SBConnectAppend == \E df \in DfSet(MaxDfRows) : \E fail \in ConnectFails : SBAppend(df, NoCutoff, fail)
PPCConnectAppend == \E df \in DfSet(MaxDfRows) : \E fail \in ConnectFails : PPCAppend(df, fail)
DSPConnectAppend == \E df \in DfSet(MaxDfRows) : \E fail \in ConnectFails : DSPAppend(df, fail)

NextConnect == SBConnectAppend \/ PPCConnectAppend \/ DSPConnectAppend

SpecConnect == InitConnect /\ [][NextConnect]_vars

---------------------------------------------------------------------------
(* SpecReplace: replacements of a dimension table (ASIN, FBA inventory,    *)
(* Launching) on a worksheet that holds earlier contents, any remote call  *)
(* of an attempt failing                                                   *)

RowTags == <<"r1", "r2", "r3", "r4", "r5", "r6">>
\* the tables of k columns and up to n rows
TablesOf(k, n) ==
    {DimTable([j \in 1..k |-> "name"], [i \in 1..r |-> [j \in 1..k |-> RowTags[i]]]) : r \in 0..n}
DimTables(w, n) == UNION {TablesOf(k, n) : k \in 1..w}

\* the earlier contents: rows filled in every column, or only beyond column P
OldRows(w) == {[j \in 1..w |-> "old"],
               [j \in 1..w |-> IF j <= launch_cols THEN EmptyCell ELSE "old"]}
OldGrids(w, n) == UNION {{[i \in 1..k |-> row] : row \in OldRows(w)} : k \in 0..n}

ReplaceFails == {NoFail, FailAt("open"), FailAt("read"), FailAt("clear"),
                 FailAt("header"), FailAt("write")}

InitReplace ==
    /\ module \in {"ASIN", "FBA", "LAUNCH"}
    /\ exists \in BOOLEAN
    /\ worksheet \in IF exists THEN OldGrids(MaxGridCols, SheetCapacity) ELSE {<<>>}
    /\ row_count = IF exists THEN SheetCapacity ELSE 0
    /\ writes = <<>>
    /\ call = NoCall
    /\ ops = 0
    /\ files = <<>>
    /\ merged = NoMerge
    /\ conn = FreshConn
    /\ input = NoInput
    /\ output = NoOutput
    /\ session_state = NoSession

ASINReplaceAny == \E df \in DimTables(MaxGridCols, MaxDfRows) : \E fail \in ReplaceFails :
                     ASINReplace(df, fail)
FBAReplaceAny == \E df \in DimTables(MaxGridCols, MaxDfRows) : \E fail \in ReplaceFails :
                    FBAReplace(df, fail)
LaunchingReplaceAny == \E df \in TablesOf(launch_cols, MaxDfRows) : \E fail \in ReplaceFails :
                          LaunchingReplace(df, fail)

NextReplace == ASINReplaceAny \/ FBAReplaceAny \/ LaunchingReplaceAny

SpecReplace == InitReplace /\ [][NextReplace]_vars

---------------------------------------------------------------------------
(* SpecPage: uploads, market selections and pushes on the Sellerboard page, *)
(* every market having its worksheet                                        *)

UploadedNames == {<<>>, <<"a">>, <<"e">>, <<"a", "b">>}

InitPage ==
    /\ module = "SB"
    /\ session_state = FreshPage
    /\ worksheet = [m \in Markets |-> <<standard_columns>>]
    /\ row_count = [m \in Markets |-> SheetCapacity]
    /\ writes = <<>>
    /\ call = NoCall
    /\ ops = 0
    /\ files = <<>>
    /\ merged = NoMerge
    /\ conn = FreshConn
    /\ exists = TRUE
    /\ input = NoInput
    /\ output = NoOutput

PageSelectAny == \E market \in Markets : \E raises \in BOOLEAN : PageSelectMarket(market, raises)
PageUploadAny == \E names \in UploadedNames : \E raises \in BOOLEAN : PageUpload(names, raises)

NextPage == PageSelectAny \/ PageUploadAny \/ PagePush

SpecPage == InitPage /\ [][NextPage]_vars

---------------------------------------------------------------------------
(* SpecMetrics: update_metrics called after upload attempts, on the same   *)
(* day or another                                                          *)

InitMetrics ==
    /\ module = "DSP"
    /\ session_state = NoMetrics
    /\ worksheet = <<>>
    /\ row_count = 0
    /\ writes = <<>>
    /\ call = NoCall
    /\ ops = 0
    /\ files = <<>>
    /\ merged = NoMerge
    /\ conn = FreshConn
    /\ exists = TRUE
    /\ input = NoInput
    /\ output = NoOutput

UpdateMetricsAny ==
    \E success \in BOOLEAN : \E market \in Markets : \E current_date \in {D1015, D1016} :
        UpdateMetrics(success, market, current_date)

NextMetrics == UpdateMetricsAny

SpecMetrics == InitMetrics /\ [][NextMetrics]_vars

---------------------------------------------------------------------------
(* Properties *)

\* a step that is one handler call
IsCall == ops' = ops + 1

\* the range writes of the append proper, after those of the initialization
\* and of the delete step
AppendWrites == SubSeq(writes, conn.init_writes + call.delete_writes + 1, Len(writes))

\* C1: an append without a cut-off date, none of its remote calls failing,
\* leaves every row the worksheet held before it in place and unchanged.
C1_AppendNeverOverwrites ==
    [][(IsCall /\ call'.cutoff = NoCutoff /\ call'.fail = NoFail)
        => \A i \in 1..Len(worksheet) :
              i <= Len(worksheet') /\ worksheet'[i] = worksheet[i]]_vars

\* C2 (as stated): with 9 non-blank cells in the first column the start row is 11.
C2_StartRowFromNonBlankCount ==
    (call.op = "append" /\ call.reached /\ call.nonblank = 9) => call.start_row = 11

\* C2 (amended): the existing row count is the number of non-blank cells of the
\* first column less one for the header (at least 0); the start row is that
\* count plus 2 and the end row is start row + row count - 1; with 9 existing
\* data rows the start row is 11, with 30 new rows the end row is 40, and the
\* grid is grown to at least the end row.
C2_RangeArithmetic ==
    (call.op = "append" /\ call.reached) =>
        LET n == Len(call.values)
        IN  /\ call.existing_rows = (IF call.nonblank >= 1 THEN call.nonblank - 1 ELSE 0)
            /\ call.start_row = call.existing_rows + 2
            /\ call.end_row = call.start_row + n - 1
            /\ call.ensured >= call.end_row
            /\ row_count >= call.end_row
            /\ Len(worksheet) = call.end_row
            /\ (call.existing_rows = 9 => call.start_row = 11)
            /\ (call.existing_rows = 9 /\ n = 30 => call.end_row = 40 /\ call.ensured >= 40)

C2_Witness ==
    /\ call.op = "append" /\ call.reached /\ call.nonblank = 10 /\ call.existing_rows = 9
    /\ Len(call.values) = 30 /\ call.start_row = 11 /\ call.end_row = 40

\* C3: every range write is issued to a grid that has at least as many rows as
\* the last row of the range.
C3_GrowBeforeWrite ==
    \A i \in 1..Len(writes) : writes[i].rc >= writes[i].last

C3_Witness ==
    /\ call.result = "ok" /\ Len(AppendWrites) >= 2
    /\ AppendWrites[Len(AppendWrites)].last > SheetCapacity
    /\ row_count > SheetCapacity

\* C4: an append of n > chunk_size rows that ends normally has issued
\* ceil(n / chunk_size) writes, in ascending row order, whose ranges partition
\* start_row..end_row, each carrying the table rows of its range.
C4_ChunksPartitionTheRows ==
    (call.module = "SB" /\ call.reached /\ call.result = "ok"
        /\ Len(call.values) > chunk_size) =>
        LET w == AppendWrites
            n == Len(call.values)
        IN  /\ Len(w) * chunk_size >= n
            /\ (Len(w) - 1) * chunk_size < n
            /\ w[1].first = call.start_row
            /\ w[Len(w)].last = call.end_row
            /\ \A k \in 1..(Len(w) - 1) : w[k + 1].first = w[k].last + 1
            /\ \A k \in 1..Len(w) :
                  /\ w[k].first <= w[k].last
                  /\ w[k].values = SubSeq(call.values, w[k].first - call.start_row + 1,
                                          w[k].last - call.start_row + 1)
            /\ \A i \in 1..n : worksheet[call.start_row + i - 1] = call.values[i]

C4_Witness ==
    /\ call.module = "SB" /\ call.result = "ok"
    /\ Len(call.values) = 5 * chunk_size + 1 /\ Len(AppendWrites) = 6

\* C5: when the write of chunk k > 1 fails, the call ends in a partial-success
\* result (one that carries the number of rows written).
C5_PartialSuccessReported ==
    (call.module = "SB" /\ call.reached /\ call.fail.at = "write" /\ call.fail.k > 1)
        => call.result = "partial"

---------------------------------------------------------------------------
(* Properties of delete_data_from_date *)

\* the row's Date cell was written for a day on or after the cut-off
DatedOnOrAfter(row, cutoff) == row.on # NoDate /\ DateKey(row.on) >= DateKey(cutoff)

RECURSIVE RowsBefore(_, _)
RowsBefore(rows, cutoff) ==
    IF rows = <<>> THEN <<>>
    ELSE IF DatedOnOrAfter(rows[1], cutoff) THEN RowsBefore(Tail(rows), cutoff)
    ELSE <<rows[1]>> \o RowsBefore(Tail(rows), cutoff)

\* C6: a delete from a cut-off date, none of its remote calls failing, removes
\* exactly the data rows written for a day on or after the cut-off and keeps
\* the others, in whichever supported format the Date cells were written.
C6_DeletesExactlyFromCutoff ==
    [][(IsCall /\ call'.cutoff # NoCutoff /\ call'.fail = NoFail)
        => LET kept == RowsBefore(Tail(worksheet), call'.cutoff)
           IN  /\ call'.rows_deleted = Len(Tail(worksheet)) - Len(kept)
               /\ Len(worksheet') >= Len(kept) + 1
               /\ SubSeq(worksheet', 2, Len(kept) + 1) = kept]_vars

\* The same holds of the code when no Date cell can be read in two ways: every
\* dated row was written for a day after the 12th of its month (as the rows of
\* 14, 15 and 16 October are).
DeletesExactlyWhenUnambiguous ==
    [][(IsCall /\ call'.cutoff # NoCutoff /\ call'.fail = NoFail
          /\ \A i \in 2..Len(worksheet) : worksheet[i].on # NoDate => worksheet[i].on.d > 12)
        => LET kept == RowsBefore(Tail(worksheet), call'.cutoff)
           IN  /\ call'.rows_deleted = Len(Tail(worksheet)) - Len(kept)
               /\ Len(worksheet') >= Len(kept) + 1
               /\ SubSeq(worksheet', 2, Len(kept) + 1) = kept]_vars

\* the row's Date cell is blank, missing, or no date in any configured format
Unparseable(row) ==
    \/ row.Date = Blank
    \/ \A fmt \in Formats : strptime(row.Date, fmt) = NoDate

RECURSIVE UnparseableRows(_)
UnparseableRows(rows) ==
    IF rows = <<>> THEN <<>>
    ELSE IF Unparseable(rows[1]) THEN <<rows[1]>> \o UnparseableRows(Tail(rows))
    ELSE UnparseableRows(Tail(rows))

\* C7: when a delete from a cut-off date ends normally, the data rows whose
\* Date cell is blank, missing or unparseable are all in the sheet afterwards,
\* unchanged and in their order, and none of them is counted as deleted.
C7_UndatedRowsKept ==
    [][(IsCall /\ call'.cutoff # NoCutoff /\ call'.result = "ok")
        => /\ UnparseableRows(Tail(worksheet')) = UnparseableRows(Tail(worksheet))
           /\ call'.rows_deleted
                <= Len(Tail(worksheet)) - Len(UnparseableRows(Tail(worksheet)))]_vars

C7_Witness ==
    /\ call.cutoff # NoCutoff /\ call.result = "ok" /\ call.cleared /\ call.rows_deleted > 0
    /\ \E i, j \in 2..Len(worksheet) :
          /\ worksheet[i].Date = Blank
          /\ worksheet[j].Date = Text("n/a")

\* the row's Date cell reads, in one of the configured formats, as a day on or
\* after the cut-off
ReadsOnOrAfter(row, cutoff) ==
    \E fmt \in Formats :
        /\ strptime(row.Date, fmt) # NoDate
        /\ DateKey(strptime(row.Date, fmt)) >= DateKey(cutoff)

---------------------------------------------------------------------------
(* Properties of process_files *)

\* C9: in the PPC merge no two rows share (ASIN, Date, Campaign), and every
\* key of the input is represented by its last row in file processing order.
C9_MergeKeyUniqueLastWins ==
    merged.module = "PPC" =>
        LET df == merged.df
            all == merged.concat
            IsLast(k) == \A m \in (k + 1)..Len(all) : MergeKey(all[m]) # MergeKey(all[k])
        IN  /\ \A i, j \in 1..Len(df) : i # j => MergeKey(df[i]) # MergeKey(df[j])
            /\ \A k \in 1..Len(all) : IsLast(k) => \E j \in 1..Len(df) : df[j] = all[k]
            /\ \A j \in 1..Len(df) : \E k \in 1..Len(all) : IsLast(k) /\ df[j] = all[k]

C9_Witness ==
    /\ merged.module = "PPC" /\ Len(files) = 2 /\ Len(merged.concat) = 2
    /\ MergeKey(merged.concat[1]) = MergeKey(merged.concat[2])
    /\ merged.concat[1].Sales # merged.concat[2].Sales
    /\ merged.df = <<merged.concat[2]>>

\* C10: the merged table is in ascending Date order and, within one Date, in
\* descending Sales order.
C10_SortedByDateThenSales ==
    merged.module # "" =>
        \A i, j \in 1..Len(merged.df) : i < j =>
            LET a == merged.df[i]
                b == merged.df[j]
            IN  /\ (a.Date # NoDate /\ b.Date # NoDate) => DateKey(a.Date) <= DateKey(b.Date)
                /\ (a.Date = b.Date /\ a.Sales # NaN /\ b.Sales # NaN) => a.Sales >= b.Sales

C10_Witness ==
    /\ merged.module = "PPC" /\ Len(merged.df) = 2
    /\ merged.df[1].Date = merged.df[2].Date
    /\ merged.df[1].Sales > merged.df[2].Sales /\ merged.df[2].Sales # NaN
    /\ merged.df[1] = merged.concat[2]

\* C11: for a given list of files the merged table and the processed-file list
\* are those of the original file-list order, whatever the order in which the
\* workers finish.
C11_MergeIndependentOfCompletionOrder ==
    merged.module = "SB" =>
        /\ merged.df = sb_process_files(files, Ascending(Len(files))).df
        /\ merged.processed_files = sb_process_files(files, Ascending(Len(files))).processed_files

---------------------------------------------------------------------------
(* Properties of the per-file functions *)

OutputNames == [i \in 1..Len(output.v) |-> output.v[i].name]

\* C12: the normalizer returns exactly the canonical columns, each once, in
\* canonical order, whatever the raw headers.
C12_ExactlyTheCanonicalColumns ==
    output.fn = "_standardize_columns" => OutputNames = sb_standard_columns

\* the raw headers that equal the canonical name ignoring case, and those that
\* only pass the alias test of "Sponsored products (PPC)"
ExactHeaders(std_col) == {i \in 1..Len(input.v) : input.v[i].key = std_col.key}
AliasHeaders == {i \in 1..Len(input.v) :
                    /\ IsSponsoredAlias(input.v[i].key)
                    /\ input.v[i].key # "sponsored products (ppc)"}
FilledFrom(std_col) == {output.v[i].src : i \in {j \in 1..Len(output.v) : output.v[j].name = std_col}}

ExactFirstAliasSecond ==
    /\ \A k \in 1..Len(sb_standard_columns) :
          ExactHeaders(sb_standard_columns[k]) # {}
              => /\ FilledFrom(sb_standard_columns[k]) # {}
                 /\ FilledFrom(sb_standard_columns[k]) \subseteq ExactHeaders(sb_standard_columns[k])
    /\ (ExactHeaders(Std("sponsored products (ppc)")) = {} /\ AliasHeaders # {})
          => /\ FilledFrom(Std("sponsored products (ppc)")) # {}
             /\ FilledFrom(Std("sponsored products (ppc)")) \subseteq AliasHeaders

\* C13: a canonical field is filled from a raw header that equals its name
\* ignoring case whenever there is one, wherever the raw columns stand and
\* whatever other header passes the alias test; with no such header,
\* "Sponsored products (PPC)" is filled from a header that has both alias tokens.
C13_ExactMatchBeforeAlias ==
    output.fn \in {"_standardize_columns", "_standardize_columns (src/sellerboard.py)"}
        => ExactFirstAliasSecond

\* The same holds of modules/sellerboard.py alone.
ExactMatchBeforeAliasInModules ==
    output.fn = "_standardize_columns" => ExactFirstAliasSecond

\* the file name holds the text once and has no digit outside it
OnlyDigitsAre(s, text) ==
    \E i \in 1..Len(s) :
        /\ Lit(s, i, text)
        /\ \A k \in 1..Len(s) : IsDigit(s[k]) => (k >= i /\ k < i + Len(text))
NoDigits(s) == \A k \in 1..Len(s) : ~IsDigit(s[k])
ExtractFns ==
    {"SB.extract_date_from_filename", "PPC.extract_date_from_filename",
     "DSP.extract_date_from_filename"}

\* C14: a file name whose digits are those of 15_10_2025 yields 15 October
\* 2025, one whose digits are those of 20251015 yields the same date, and one
\* without digits yields no date.
C14_ExtractDateExamples ==
    output.fn \in ExtractFns =>
        /\ OnlyDigitsAre(input.v, Txt_15_10_2025)
              => output.v = Extracted(D1015, "matched")
        /\ OnlyDigitsAre(input.v, Txt_20251015)
              => output.v = Extracted(D1015, "matched")
        /\ NoDigits(input.v) => output.v = Extracted(NoDate, "none")

---------------------------------------------------------------------------
(* Properties of a batch with rejected files *)

\* the table process_files gets for one file of the batch
PerFileTable(m, f) ==
    CASE m = "SB" -> sb_process_single_excel(f)
      [] m = "PPC" -> ppc_process_single_excel(f)
      [] m = "DSP" -> IF dsp_raises(f) THEN <<>> ELSE dsp_process_single_file_content(f)

\* the files that cannot be read or lack the Creative column
BadFiles == {i \in 1..Len(files) : files[i].kind # "table"}
\* the other files that hold rows, and those of them whose table is merged
GoodFiles(m) == {i \in 1..Len(files) : files[i].kind = "table" /\ PerFileTable(m, files[i]) # <<>>}
EveryCellNull(m, t) ==
    /\ m # "DSP"
    /\ \A k \in 1..Len(t) : t[k] = TRow(NA, NoDate, NA, NaN)
MergedFiles(m) == {i \in GoodFiles(m) : ~EveryCellNull(m, PerFileTable(m, files[i]))}
ProcessedSet == {merged.processed_files[k] : k \in 1..Len(merged.processed_files)}

RECURSIVE RowsOf(_, _, _)
RowsOf(m, S, i) ==
    IF i = 0 THEN 0
    ELSE RowsOf(m, S, i - 1) + (IF i \in S THEN Len(PerFileTable(m, files[i])) ELSE 0)

\* C16: a file that cannot be read, or lacks the Creative column, has an error
\* recorded against it and is not among the processed files; every other file
\* that holds rows is processed and the rows of all of them are merged.
C16_BadFilesSkippedBatchContinues ==
    merged.module # "" =>
        LET m == merged.module
        IN  /\ BadFiles \subseteq merged.errors
            /\ BadFiles \cap ProcessedSet = {}
            /\ MergedFiles(m) # {} => GoodFiles(m) \subseteq ProcessedSet
            /\ Len(merged.concat) = RowsOf(m, MergedFiles(m), Len(files))
            /\ \A i \in MergedFiles(m) : \A k \in 1..Len(PerFileTable(m, files[i])) :
                  \E j \in 1..Len(merged.concat) : merged.concat[j] = PerFileTable(m, files[i])[k]

C16_Witness ==
    /\ Len(files) = 2 /\ files[1].kind = "no_creative" /\ files[2].kind = "table"
    /\ merged.module = "DSP" /\ merged.errors = {1} /\ merged.processed_files = <<2>>
    /\ Len(merged.df) = 1

\* every file of the batch is rejected, or its table is empty or all-null
NothingToMerge(m) ==
    \A i \in 1..Len(files) :
        \/ files[i].kind # "table"
        \/ PerFileTable(m, files[i]) = <<>>
        \/ EveryCellNull(m, PerFileTable(m, files[i]))

\* C17: when every file is rejected or every table is empty or all-null,
\* process_files returns an empty table and no processed files; and
\* append_to_sheets of an empty table returns failure at once: the connection
\* is not opened and no remote read, growth, clear or write is issued.
C17_EmptyBatchIsNotSynced ==
    [][/\ (merged'.module # "" /\ NothingToMerge(merged'.module))
            => (merged'.df = <<>> /\ merged'.processed_files = <<>>)
       /\ (IsCall /\ merged.df = <<>>)
            => /\ call'.result = "nodata"
               /\ ~call'.reached
               /\ writes' = <<>>
               /\ UNCHANGED <<worksheet, row_count, conn, exists>>]_vars

C17_Witness ==
    /\ module = "SB" /\ Len(files) = 2
    /\ files[1].kind = "unreadable" /\ files[2].kind = "table" /\ files[2].rows # <<>>
    /\ merged.module = "SB" /\ merged.df = <<>>
    /\ ops = 1 /\ call.result = "nodata" /\ conn = FreshConn

\* the range write of _init_google_sheets: the header of a created worksheet,
\* in row 1
IsHeaderWrite(w) == w.first = 1 /\ w.last = 1 /\ w.values = <<standard_columns>>

\* C18: if authenticating, opening the remote document or locating/creating
\* the worksheet fails in a sync attempt, the attempt is aborted before any
\* data operation: the worksheet is not grown and not cleared, no data range
\* write is issued, and the attempt ends in one reported failure.
C18_InitFailureAbortsBeforeData ==
    [][(IsCall /\ conn'.opened = "raised") =>
          /\ call'.result \in {"raised", "false"}
          /\ ~call'.reached
          /\ worksheet' = worksheet
          /\ row_count' = row_count \/ (~exists /\ exists' /\ row_count' = created_rows)
          /\ \A i \in 1..Len(writes') : IsHeaderWrite(writes'[i])
          /\ Len(writes') <= 1]_vars

C18_Witness ==
    /\ ops = 1 /\ module = "SB" /\ call.fail = FailAt("open") /\ call.values # <<>>
    /\ conn.opened = "raised" /\ conn.client /\ ~conn.spreadsheet
    /\ call.result = "raised" /\ writes = <<>>

\* C19: after a sync attempt failed because the remote document or the
\* worksheet could not be reached, a later attempt on the same processor
\* object with the same table, none of its remote calls failing, opens the
\* worksheet and writes the table.
C19_RetryAfterConnectionErrorSucceeds ==
    [][(/\ IsCall
        /\ conn.opened = "raised" /\ call.fail.at \in {"open", "locate"}
        /\ call'.fail = NoFail /\ call'.values = call.values /\ call'.values # <<>>)
       => /\ call'.result = "ok"
          /\ conn'.worksheet
          /\ \E i \in 1..Len(writes') : writes'[i].values = call'.values]_vars

\* the retry that fails: Sellerboard, open_by_key failed in the first attempt
RetryFailsOnStaleClient ==
    /\ ops = 2 /\ module = "SB" /\ exists
    /\ call.fail = NoFail /\ call.values # <<>>
    /\ conn.client /\ ~conn.worksheet /\ conn.opened = "skipped"
    /\ call.result = "raised" /\ writes = <<>>

\* C20: when the worksheet does not exist at a sync, it is created and the
\* canonical header is written into row 1 before any data row, so that after
\* the successful append row 1 holds the header and the first data row is in
\* row 2 (Sellerboard, PPC, DSP).
C20_CreatedSheetHasHeaderInRowOne ==
    [][(IsCall /\ ~exists /\ call'.result = "ok") =>
          /\ exists' /\ conn'.opened = "created"
          /\ Len(writes') >= 2 /\ IsHeaderWrite(writes'[1])
          /\ \A i \in 2..Len(writes') : writes'[i].first >= 2
          /\ worksheet'[1] = standard_columns
          /\ worksheet'[2] = call'.values[1]]_vars

\* the created DSP worksheet: data from row 2 on, nothing in row 1
CreatedDSPSheetHasNoHeader ==
    /\ ops = 1 /\ module = "DSP" /\ conn.opened = "created" /\ call.result = "ok"
    /\ conn.init_writes = 0
    /\ worksheet[1] # standard_columns
    /\ worksheet[2] = call.values[1]

\* (C20, Sellerboard and PPC alone: the header is in row 1 of a created
\* worksheet)
HeaderOnCreateInSBAndPPC ==
    [][(IsCall /\ ~exists /\ call'.result = "ok" /\ module \in {"SB", "PPC"}) =>
          /\ IsHeaderWrite(writes'[1])
          /\ worksheet'[1] = standard_columns
          /\ worksheet'[2] = call'.values[1]]_vars

\* a table's header and rows as rows of a grid of width w
Padded(w, r) == [j \in 1..w |-> IF j <= Len(r) THEN r[j] ELSE EmptyCell]
SheetOf(w, df) == <<Padded(w, df.columns)>> \o [i \in 1..Len(df.rows) |-> Padded(w, df.rows[i])]

\* C21: after a successful replacement by the ASIN or FBA inventory module
\* the worksheet holds exactly the new table's header in row 1 and its rows
\* from row 2, nothing of its earlier contents; the same replacement applied
\* again leaves the same sheet.
C21_ReplacementHoldsExactlyTheNewTable ==
    [][(IsCall /\ module \in {"ASIN", "FBA"} /\ call'.result = "ok") =>
          /\ worksheet' = SheetOf(MaxGridCols, call'.table)
          /\ (call.result = "ok" /\ call.table = call'.table) => worksheet' = worksheet]_vars

C21_Witness ==
    /\ ops = 1 /\ module = "ASIN" /\ call.result = "ok"
    /\ Len(call.before) = 3 /\ call.before[3][MaxGridCols] = "old"
    /\ Len(call.table.rows) = 1 /\ Len(call.table.columns) = 1
    /\ worksheet = SheetOf(MaxGridCols, call.table)
    /\ Len(worksheet) = 2 /\ Len(writes) = 2

\* a raw header with a "refund" token and a "cost" token, "cost" in Latin
\* letters or with the Cyrillic es
HasRefundAndCost(h) == h.key \in {"refund cost", "refund <U+0441>ost"}
RefundCostFilled(out) ==
    \E k \in 1..Len(out) : out[k].name = Std("refund <U+0441>ost") /\ out[k].src # 0

\* C22: the canonical "refund cost" field is filled from a raw column whose
\* header has both a "refund" token and a "cost" token, in either spelling of
\* "cost"; it is null only when no raw header has both tokens.
C22_RefundCostFilledFromEitherSpelling ==
    output.fn \in {"_standardize_columns", "_standardize_columns (src/sellerboard.py)"} =>
        (RefundCostFilled(output.v) <=> \E i \in 1..Len(input.v) : HasRefundAndCost(input.v[i]))

\* (C22, the canonical spelling alone: a header equal to the canonical name
\* fills the field)
RefundCostFilledFromCanonicalSpelling ==
    (output.fn \in {"_standardize_columns", "_standardize_columns (src/sellerboard.py)"}
       /\ \E i \in 1..Len(input.v) : input.v[i].key = "refund <U+0441>ost")
    => RefundCostFilled(output.v)

\* the date the leftmost match of a pattern parses to, NoDate if the pattern
\* does not match or its match does not parse; the patterns in the precedence
\* YYYYMMDD, DD_MM_YYYY, YYYY-MM-DD
PatternMatch(s, k) ==
    CASE k = 1 -> FirstMatch({pos \in 1..Len(s) : pattern_8_digits(s, pos)})
      [] k = 2 -> FirstMatch({pos \in 1..Len(s) : pattern_dd_mm_yyyy(s, pos)})
      [] k = 3 -> FirstMatch({pos \in 1..Len(s) : pattern_yyyy_mm_dd(s, pos)})
PatternDate(s, k) ==
    IF PatternMatch(s, k) = 0 THEN NoDate
    ELSE CASE k = 1 -> parse_yyyymmdd(s, PatternMatch(s, k))
           [] k = 2 -> parse_dd_mm_yyyy(s, PatternMatch(s, k))
           [] k = 3 -> parse_yyyy_mm_dd(s, PatternMatch(s, k))
FirstParsing(s) ==
    IF PatternDate(s, 1) # NoDate THEN PatternDate(s, 1)
    ELSE IF PatternDate(s, 2) # NoDate THEN PatternDate(s, 2)
    ELSE PatternDate(s, 3)
MatchedUnparsed(s) == \E k \in 1..3 : PatternMatch(s, k) # 0 /\ PatternDate(s, k) = NoDate

\* C23: when the text matched by a pattern does not parse as a calendar
\* date, extraction does not raise and goes on to the next pattern in the
\* precedence YYYYMMDD, DD_MM_YYYY, YYYY-MM-DD: it yields the date of the first
\* pattern that matches and parses.
C23_ParseFailureFallsThrough ==
    (output.fn \in ExtractFns /\ MatchedUnparsed(input.v)) =>
        /\ output.v.how # "raised"
        /\ FirstParsing(input.v) # NoDate => output.v = Extracted(FirstParsing(input.v), "matched")

\* (C23, PPCProcessor alone)
ParseFailureFallsThroughInPPC ==
    (output.fn = "PPC.extract_date_from_filename" /\ MatchedUnparsed(input.v)) =>
        /\ output.v.how # "raised"
        /\ FirstParsing(input.v) # NoDate => output.v = Extracted(FirstParsing(input.v), "matched")

\* the fall-through happening in PPCProcessor: 20251315 does not parse, 14_10_2025 does
FallThroughInPPC ==
    /\ output.fn = "PPC.extract_date_from_filename"
    /\ PatternMatch(input.v, 1) # 0 /\ PatternDate(input.v, 1) = NoDate
    /\ output.v = Extracted(D1014, "matched")

\* the files of the batch that hold data and whose name yields no date
Undated ==
    {i \in 1..Len(files) :
        /\ files[i].kind = "table" /\ files[i].date = NoDate
        /\ \E k \in 1..Len(files[i].rows) : files[i].rows[k].Sales # NaN}
\* the rows of file i stand in the merged table with the date dt
MergedWithDate(m, i, dt) ==
    \A k \in 1..Len(PerFileTable(m, files[i])) :
        /\ PerFileTable(m, files[i])[k].Date = dt
        /\ \E j \in 1..Len(merged.concat) : merged.concat[j] = PerFileTable(m, files[i])[k]

\* C24: a file whose name yields no date is rejected with a per-file error or
\* its rows get the current date; no row is merged into the batch with a null
\* observation date.
C24_UndatedFileRejectedOrDatedToday ==
    merged.module # "" =>
        /\ \A i \in Undated :
              \/ i \in merged.errors /\ i \notin ProcessedSet
              \/ MergedWithDate(merged.module, i, Today)
        /\ \A j \in 1..Len(merged.df) : merged.df[j].Date # NoDate

\* (C24, PPCProcessor alone: the rows of an undated file get the current date)
UndatedFileDatedTodayInPPC ==
    merged.module = "PPC" =>
        /\ \A i \in Undated : MergedWithDate("PPC", i, Today)
        /\ \A j \in 1..Len(merged.df) : merged.df[j].Date # NoDate

\* an undated PPC file with a row is merged
UndatedPPCFileMerged ==
    /\ merged.module = "PPC" /\ Undated # {} /\ merged.df # <<>>
    /\ \A j \in 1..Len(merged.df) : merged.df[j].Date = Today

\* the one rule, cell by cell
SerializedCell(v, null, text) == IF v = null THEN Blank ELSE text

\* C25: every cell of an appended table is serialized by one rule: a null
\* cell becomes the empty string, a date becomes the text month/day/year, a
\* number is passed through as a number, any other value becomes its string.
C25_OneSerializationRule ==
    output.fn \in {"row_values", "row_values (src/sellerboard_app.py)"} =>
        /\ output.v.A = SerializedCell(input.v.A, NA, Text(input.v.A))
        /\ output.v.Campaign = SerializedCell(input.v.Campaign, NA, Text(input.v.Campaign))
        /\ output.v.Date = SerializedCell(input.v.Date, NoDate,
                                           Dated("/", input.v.Date.m, input.v.Date.d, input.v.Date.y))
        /\ output.v.Sales = SerializedCell(input.v.Sales, NaN, Number(input.v.Sales))

\* (C25, modules/sellerboard.py alone)
OneSerializationRuleInModules ==
    output.fn = "row_values" =>
        /\ output.v.A = SerializedCell(input.v.A, NA, Text(input.v.A))
        /\ output.v.Campaign = SerializedCell(input.v.Campaign, NA, Text(input.v.Campaign))
        /\ output.v.Date = SerializedCell(input.v.Date, NoDate,
                                           Dated("/", input.v.Date.m, input.v.Date.d, input.v.Date.y))
        /\ output.v.Sales = SerializedCell(input.v.Sales, NaN, Number(input.v.Sales))

\* C26: in the replacement of a dimension table (ASIN, FBA inventory,
\* Launching) no range write is issued for a range whose last row exceeds the
\* row count the worksheet has at that moment.
C26_ReplacementNeverWritesBelowTheGrid ==
    call.op = "replace" =>
        \A i \in 1..Len(writes) : writes[i].last <= writes[i].rc

\* the cell in row i, column j of a grid, rows below its last one being empty
CellAt(g, i, j) == IF i <= Len(g) THEN g[i][j] ELSE EmptyCell

\* C27: the Launching replacement changes only cells of the columns A to P:
\* every cell in column Q or beyond has the same content after the call as
\* before it, however the call ends.
C27_LaunchingLeavesColumnsBeyondP ==
    [][(IsCall /\ module = "LAUNCH") =>
          \A i \in 1..Max(Len(worksheet), Len(worksheet')) : \A j \in (launch_cols + 1)..MaxGridCols :
              CellAt(worksheet', i, j) = CellAt(worksheet, i, j)]_vars

C27_Witness ==
    /\ ops = 1 /\ module = "LAUNCH" /\ call.result = "ok"
    /\ Len(call.before) = 3 /\ call.before[3] = [j \in 1..MaxGridCols |-> "old"]
    /\ Len(call.table.rows) = 1
    /\ Len(worksheet) = 3
    /\ worksheet[1][1] = "name" /\ worksheet[2][1] = "r1" /\ worksheet[3][1] = EmptyCell
    /\ \A i \in 1..3 : worksheet[i][MaxGridCols] = "old"

\* the row is one delete_data_from_date keeps: its Date cell does not read as
\* a day on or after the cut-off
DecidedToKeep(row, cutoff) ==
    \/ Unparseable(row)
    \/ parse_date_fast(row.Date) # NoDate /\ DateKey(parse_date_fast(row.Date)) < DateKey(cutoff)
HeaderAndKeptRowsStillThere(before, after, cutoff) ==
    /\ after # <<>> /\ after[1] = before[1]
    /\ \A i \in 2..Len(before) :
          DecidedToKeep(before[i], cutoff) => \E j \in 2..Len(after) : after[j] = before[i]

\* C28: whenever delete_data_from_date ends, normally or because a remote
\* call raised part-way, the worksheet still holds the header and every data
\* row the delete keeps (dated before the cut-off, or with an unparseable date).
C28_DeleteNeverLosesKeptRows ==
    [][(IsCall /\ call'.cutoff # NoCutoff)
        => HeaderAndKeptRowsStillThere(worksheet, worksheet', call'.cutoff)]_vars

\* (C28, the delete ending normally)
KeptRowsStillThereAfterNormalEnd ==
    [][(IsCall /\ call'.cutoff # NoCutoff /\ call'.result = "ok")
        => HeaderAndKeptRowsStillThere(worksheet, worksheet', call'.cutoff)]_vars

\* a step that is a push from the Sellerboard page
IsPush == session_state'.pushes = session_state.pushes + 1

\* C29: a push from the Sellerboard page writes to the worksheet of the
\* market selected, and shown as the target, at the moment of the push, and
\* to no other worksheet.
C29_PushGoesToSelectedMarket ==
    [][IsPush =>
          /\ session_state'.target_shown = session_state.selected_market
          /\ worksheet'[session_state.selected_market] # worksheet[session_state.selected_market]
          /\ \A m \in Markets \ {session_state.selected_market} : worksheet'[m] = worksheet[m]]_vars

\* (C29, the market not changed since the files were processed)
PushGoesToMarketOfProcessing ==
    [][IsPush =>
          /\ worksheet'[session_state.processor] # worksheet[session_state.processor]
          /\ \A m \in Markets \ {session_state.processor} : worksheet'[m] = worksheet[m]]_vars

\* C30: after every call of update_metrics, total_uploads is
\* successful_uploads + failed_uploads, today_uploads is at most
\* total_uploads, and the market passed to the call, like those passed to the
\* calls before it, is in active_markets.
C30_MetricsStayConsistent ==
    [][(IsCall /\ call'.op = "update_metrics") =>
          /\ session_state'.total_uploads
                = session_state'.successful_uploads + session_state'.failed_uploads
          /\ session_state'.today_uploads <= session_state'.total_uploads
          /\ call'.market \in session_state'.active_markets
          /\ session_state.active_markets \subseteq session_state'.active_markets]_vars

C30_Witness ==
    /\ session_state.page = "dsp" /\ session_state.total_uploads = 3
    /\ session_state.successful_uploads = 1 /\ session_state.failed_uploads = 2
    /\ session_state.today_uploads = 1 /\ session_state.last_upload_date = D1016
    /\ session_state.active_markets = {"US", "CA"}

====
